---- MODULE Spec2Model ----
(***************************************************************************)
(* Model of aiomatrix's subscription-driven sync/dispatch engine:          *)
(* EventFilter (api/client/r0/filter.py), EventManager (eventmanager.py),  *)
(* the since token of AioMatrixApi (api/client/r0/lowlevel.py) and the     *)
(* re-injection of decrypted messages by Room.wait_enc_message (room.py).  *)
(* The asyncio event loop is modelled by its FIFO ready queue: a task step *)
(* runs from one suspension point to the next without interruption.        *)
(***************************************************************************)
EXTENDS Integers, Sequences, FiniteSets, TLC

\* ------------------------------------------------------------------ bounds
\* number of subscriber queues ever created (each generator owns a fresh one)
MaxQueues == 2
\* number of sync requests the home-server answers, successfully or not
MaxBatch == 3
\* number of room events the home-server produces
MaxEvents == 2
\* number of events in one sync response
MaxRespEvents == 1

Rooms == {"r1", "r2"}
Senders == {"@a:hs"}
None == "None"

\* keys of EventManager.subscriber_list
Kinds == {"message", "typing", "invite", "encryption", "encrypted", "prekey", "otk"}
RoomKinds == {"message", "encryption", "encrypted", "typing"}
GlobalKinds == {"invite", "prekey", "otk"}

VARIABLES
    subscriber_list,   \* EventManager.subscriber_list: kind -> list of <<room_id, queue>>
    filter,            \* EventManager.filter: the four lists of EventFilter
    since_token,       \* AioMatrixApi.since_token (None until the first response)
    tasks,             \* every asyncio task the engine created, by creation order
    sync_task,         \* EventManager.sync_task: index into tasks, 0 for None
    rec_task,          \* EventManager.rec_task: index into tasks, 0 for None
    ready,             \* the event loop's ready queue (task indices, FIFO)
    getters,           \* general_queue._getters: tasks blocked in general_queue.get()
    general_queue,     \* EventManager.general_queue
    delivered,         \* per subscriber queue: everything put on it, in order
    handled,           \* per subscriber queue: items its consumer has taken
    consumer,          \* per subscriber queue: the (event, room_id) its generator subscribed
    generator,         \* per subscriber queue: where its generator stands
    account,           \* Session.olm_account, its pickle file and the keys it uploaded
    batch,             \* home-server: number of responses produced
    serial,            \* home-server: number of room events produced
    call,              \* the last call made on an EventFilter object directly
    room,              \* the Room object: is_encrypted, meg_ses, room_keys, its tasks and
                       \* the number of times it created its two handler tasks
    olm_sessions,      \* Session.olm_sessions: (user_id, device key) -> olm session
    disk,              \* the pickle files olmSessions.pkl and megOlmSessions_<room>.pkl
    op,                \* the activate_encryption / send_message call in progress
    server,            \* home-server: device keys, room events and to-device messages
    inbox,             \* the subscriber queues of the room's three handler tasks
    enc_handler,       \* Room.wait_enc_message: where it stands, the message it holds
    used               \* what has been spent of the bounds, and the plaintexts sent

\* the variables of the encryption orchestration of one room
enc_vars == <<room, olm_sessions, disk, op, server, inbox, enc_handler, used>>

\* the variables the engine's own operations never touch
other_vars == <<call, generator, account, enc_vars>>

vars == <<subscriber_list, filter, since_token, tasks, sync_task, rec_task, ready,
          getters, general_queue, delivered, handled, consumer, batch, serial, other_vars>>

\* ------------------------------------------------------- list helpers
\* list.count(x)
Count(s, x) == Cardinality({i \in DOMAIN s : s[i] = x})

\* x in list
Contains(s, x) == \E i \in DOMAIN s : s[i] = x

\* index of the first occurrence of x (0 when absent)
IndexOf(s, x) == IF Contains(s, x) THEN CHOOSE i \in DOMAIN s : s[i] = x /\ \A j \in 1..(i - 1) : s[j] # x
                 ELSE 0

\* mutant: removing an absent element is silently ignored
ListRemove_Silent(s, x) ==
    LET i == IndexOf(s, x)
    IN IF i = 0 THEN [raised |-> FALSE, list |-> s]
       ELSE [raised |-> FALSE, list |-> SubSeq(s, 1, i - 1) \o SubSeq(s, i + 1, Len(s))]

\* list.remove(x): drops the first occurrence, raises ValueError when absent
ListRemove(s, x) ==
    LET i == IndexOf(s, x)
    IN IF i = 0 THEN [raised |-> TRUE, list |-> s]
       ELSE [raised |-> FALSE, list |-> SubSeq(s, 1, i - 1) \o SubSeq(s, i + 1, Len(s))]

\* the elements of a list
Range(s) == {s[i] : i \in DOMAIN s}

\* ------------------------------------------------------- EventFilter
EventFilter == [timeline_types |-> <<>>, timeline_rooms |-> <<>>,
                ephemeral_types |-> <<>>, ephemeral_rooms |-> <<>>]

\* the type string set_filter registers for a room-scoped kind
TypeOfKind(event) ==
    CASE event = "message" -> "m.room.message"
      [] event = "encryption" -> "m.room.encryption"
      [] event = "encrypted" -> "m.room.encrypted"
      [] event = "typing" -> "m.typing"
      [] OTHER -> None

\* the type string remove_filter takes out again when the kind's last room goes
RemovedTypeOfKind(event) ==
    CASE event = "message" -> "m.room.message"
      [] event = "encryption" -> "m.room.encryption"
      [] event = "encrypted" -> "m.room.encrypted"
      [] event = "typing" -> "m.room.typing"
      [] OTHER -> None

\* mutant: the room ids are listed as they are, without building the set
get_unique_list_NoSet(rooms) ==
    [i \in DOMAIN rooms |-> rooms[i][2]]

\* __get_unique_list: list(set(room_id for event, room_id in rooms)). The order of
\* the list is the iteration order of the set and carries no meaning, the rooms
\* are listed here in the order of their first entry
RECURSIVE get_unique_list(_)
get_unique_list(rooms) ==
    IF rooms = <<>> THEN <<>>
    ELSE LET seen == get_unique_list(SubSeq(rooms, 1, Len(rooms) - 1))
             room_id == rooms[Len(rooms)][2]
         IN IF Contains(seen, room_id) THEN seen ELSE Append(seen, room_id)

get_filter_dict(f) ==
    [ephemeral |-> [types |-> f.ephemeral_types, rooms |-> get_unique_list(f.ephemeral_rooms)],
     timeline |-> [types |-> f.timeline_types, rooms |-> get_unique_list(f.timeline_rooms)]]

set_filter(f, event, room_id) ==
    IF event \in {"message", "encryption", "encrypted"}
    THEN [f EXCEPT !.timeline_rooms = Append(@, <<event, room_id>>),
                   !.timeline_types = IF Contains(@, TypeOfKind(event)) THEN @
                                      ELSE Append(@, TypeOfKind(event))]
    ELSE IF event = "typing"
    THEN [f EXCEPT !.ephemeral_rooms = Append(@, <<event, room_id>>),
                   !.ephemeral_types = IF Contains(@, TypeOfKind(event)) THEN @
                                       ELSE Append(@, TypeOfKind(event))]
    ELSE f

\* remove_filter: result is the filter left behind and whether ValueError was raised;
\* a raise after the room entry was removed leaves the room entry removed
remove_filter(f, event, room_id) ==
    IF event \in {"message", "encryption", "encrypted"}
    THEN LET r == ListRemove(f.timeline_rooms, <<event, room_id>>)
             t == ListRemove(f.timeline_types, RemovedTypeOfKind(event))
         IN IF r.raised THEN [raised |-> TRUE, filter |-> f]
            ELSE IF \E i \in DOMAIN r.list : r.list[i][1] = event
            THEN [raised |-> FALSE, filter |-> [f EXCEPT !.timeline_rooms = r.list]]
            ELSE [raised |-> t.raised,
                  filter |-> [f EXCEPT !.timeline_rooms = r.list, !.timeline_types = t.list]]
    ELSE IF event = "typing"
    THEN LET r == ListRemove(f.ephemeral_rooms, <<event, room_id>>)
             t == ListRemove(f.ephemeral_types, RemovedTypeOfKind(event))
         IN IF r.raised THEN [raised |-> TRUE, filter |-> f]
            ELSE IF \E i \in DOMAIN r.list : r.list[i][1] = event
            THEN [raised |-> FALSE, filter |-> [f EXCEPT !.ephemeral_rooms = r.list]]
            ELSE [raised |-> t.raised,
                  filter |-> [f EXCEPT !.ephemeral_rooms = r.list, !.ephemeral_types = t.list]]
    ELSE [raised |-> FALSE, filter |-> f]

\* ------------------------------------------------------- asyncio tasks
\* a sync response that has not arrived
NoResp == [status |-> 0, next_batch |-> 0]
\* the request of a task that has none in flight
NoReq == [since |-> 0, filtered |-> FALSE]

\* loop.create_task(coro): the new task's first step is scheduled on the ready queue
create_task(L, type) ==
    [L EXCEPT !.tasks = Append(@, [type |-> type, pc |-> "start", must_cancel |-> FALSE,
                                   fut_done |-> FALSE, resp |-> NoResp, req |-> NoReq]),
              !.ready = Append(@, Len(L.tasks) + 1)]

TaskDone(task) == task.pc \in {"cancelled", "failed"}

\* Task.cancel(): a finished task is left alone; a task waiting on a pending future has
\* the future cancelled, which schedules its wake-up; a task already scheduled gets
\* CancelledError thrown in at its next step
task_cancel(L, t) ==
    IF TaskDone(L.tasks[t]) \/ L.tasks[t].must_cancel THEN L
    ELSE IF L.tasks[t].pc = "start" \/ L.tasks[t].fut_done
    THEN [L EXCEPT !.tasks[t].must_cancel = TRUE]
    ELSE [L EXCEPT !.tasks[t].must_cancel = TRUE, !.ready = Append(@, t)]

\* EventManager.start
start(L) ==
    LET L1 == create_task(L, "rec")
        L2 == create_task(L1, "sync")
    IN [L2 EXCEPT !.rec_task = Len(L1.tasks), !.sync_task = Len(L2.tasks)]

\* mutant: the running poll task is not cancelled
restart_tasks_NoCancel(L) ==
    start(L)

\* EventManager.__restart_tasks
restart_tasks(L) ==
    start(IF L.sync_task # 0 THEN task_cancel(L, L.sync_task) ELSE L)

\* EventManager.cancel
cancel(L) ==
    task_cancel(task_cancel(L, L.sync_task), L.rec_task)

\* the engine's runtime as one record, and its assignment back to the variables
Runtime == [tasks |-> tasks, ready |-> ready, getters |-> getters,
            sync_task |-> sync_task, rec_task |-> rec_task,
            general_queue |-> general_queue, delivered |-> delivered]

SetRuntime(L) ==
    /\ tasks' = L.tasks
    /\ ready' = L.ready
    /\ getters' = L.getters
    /\ sync_task' = L.sync_task
    /\ rec_task' = L.rec_task
    /\ general_queue' = L.general_queue
    /\ delivered' = L.delivered

\* ------------------------------------------------------- subscriptions
\* the room ids of one kind's subscriber list
SubscribedRooms(list) == [i \in DOMAIN list |-> list[i][1]]

\* mutant: restart only for the first subscriber of a kind, whatever its room
AddNeedsRestart_KindOnly(list, room_id) ==
    Len(list) = 1

\* the condition under which add_subscriber restarts the tasks
AddNeedsRestart(list, room_id) ==
    Len(list) = 1 \/ Count(SubscribedRooms(list), room_id) = 1

\* the condition under which remove_subscriber restarts the tasks
RemoveNeedsRestart(list, room_id) ==
    list = <<>> \/ Count(SubscribedRooms(list), room_id) = 0

\* EventManager.add_subscriber, called by a generator with its fresh queue
add_subscriber(event, queue, room_id) ==
    LET list == Append(subscriber_list[event], <<room_id, queue>>)
    IN /\ subscriber_list' = [subscriber_list EXCEPT ![event] = list]
       /\ filter' = set_filter(filter, event, room_id)
       /\ IF AddNeedsRestart(list, room_id)
          THEN SetRuntime(restart_tasks(Runtime))
          ELSE SetRuntime(Runtime)

\* EventManager.remove_subscriber for a registered entry
remove_subscriber(event, queue, room_id) ==
    LET removed == ListRemove(subscriber_list[event], <<room_id, queue>>)
        list == removed.list
        sl == [subscriber_list EXCEPT ![event] = list]
        rf == remove_filter(filter, event, room_id)
        L1 == restart_tasks(Runtime)
    IN /\ ~removed.raised
       /\ subscriber_list' = sl
       /\ filter' = rf.filter
       /\ IF rf.raised THEN SetRuntime(Runtime)
          ELSE IF RemoveNeedsRestart(list, room_id)
          THEN IF \E event_type \in Kinds : sl[event_type] # <<>>
               THEN SetRuntime(L1)
               ELSE SetRuntime(cancel(L1))
          ELSE SetRuntime(Runtime)

\* ------------------------------------------------------- sync responses
DeviceId == "DEV"
SessionId == "sid"
EmptyDict == <<>>

\* what the home-server wrote into an event: opaque to the client, it names the
\* event's serial number, room and sender
Body(id, room_id, sender) == [id |-> id, room |-> room_id, sender |-> sender]

\* megolm: the ciphertext of a body under a group session, and its decryption
MegolmEncrypt(session_id, body) == [session |-> session_id, plain |-> body]
MegolmDecrypt(session_id, ciphertext) == ciphertext.plain

\* the events the home-server can produce next; sec is the section of the response
\* the event is reported in
ServerEvents(id) ==
    {[sec |-> "timeline", room |-> r,
      ev |-> [type |-> "m.room.message", sender |-> s, content |-> [body |-> Body(id, r, s)]]]
        : r \in Rooms, s \in Senders}
    \cup
    {[sec |-> "timeline", room |-> r,
      ev |-> [type |-> "m.room.encrypted", sender |-> s,
              content |-> [ciphertext |-> MegolmEncrypt(SessionId, Body(id, r, s)),
                           device_id |-> DeviceId, session_id |-> SessionId]]]
        : r \in Rooms, s \in Senders}
    \cup
    {[sec |-> "ephemeral", room |-> r,
      ev |-> [type |-> "m.typing", content |-> [user_ids |-> u]]]
        : r \in Rooms, u \in {<<>>} \cup {<<s>> : s \in Senders}}
    \cup
    {[sec |-> "invite", room |-> r,
      ev |-> [type |-> "m.room.name", sender |-> s, content |-> [name |-> "room"]]]
        : r \in Rooms, s \in Senders}

\* the events of one section and room, in the order the server listed them
RECURSIVE SectionEvents(_, _, _)
SectionEvents(evs, sec, room_id) ==
    IF evs = <<>> THEN <<>>
    ELSE LET rest == SectionEvents(Tail(evs), sec, room_id)
         IN IF Head(evs).sec = sec /\ Head(evs).room = room_id
            THEN <<Head(evs).ev>> \o rest ELSE rest

\* the invited rooms of a response, in the order the server listed them
RECURSIVE InviteKeys(_)
InviteKeys(evs) ==
    IF evs = <<>> THEN <<>>
    ELSE LET rest == InviteKeys(Tail(evs))
         IN IF Head(evs).sec = "invite" /\ ~Contains(rest, Head(evs).room)
            THEN <<Head(evs).room>> \o rest ELSE rest

\* the JSON body of a successful sync response reporting the events evs
SyncJson(next_batch, evs) ==
    LET joined == {evs[i].room : i \in {j \in DOMAIN evs : evs[j].sec \in {"timeline", "ephemeral"}}}
        keys == InviteKeys(evs)
    IN [status |-> 200,
        next_batch |-> next_batch,
        rooms |-> [join |-> [r \in joined |->
                               [timeline |-> [events |-> SectionEvents(evs, "timeline", r)],
                                ephemeral |-> [events |-> SectionEvents(evs, "ephemeral", r)]]],
                   invite |-> [i \in DOMAIN keys |->
                                 [room_id |-> keys[i],
                                  invite_state |-> [events |-> SectionEvents(evs, "invite", keys[i])]]]],
        to_device |-> EmptyDict,
        device_one_time_keys_count |-> EmptyDict]

\* a response with a non-200 status: __send_request raises AiomatrixError
ErrorResponse == [status |-> 500, next_batch |-> 0]

\* ------------------------------------------------------- get_filtered_event
\* the tuples one timeline event contributes
TimelineTuples(room_id, event) ==
    (IF event.type = "m.room.message"
     THEN <<(<<"message", room_id, event.sender, event.content.body>>)>> ELSE <<>>)
    \o
    (IF event.type = "m.room.encryption"
     THEN <<(<<"encryption", room_id, event.sender, event.content.algorithm>>)>> ELSE <<>>)
    \o
    (IF event.type = "m.room.encrypted"
     THEN <<(<<"encrypted", room_id, event.sender, event.content.ciphertext,
              event.content.device_id, event.content.session_id>>)>> ELSE <<>>)

\* mutant: the emptiness of user_ids is not looked at
EphemeralTuples_AnyUserIds(room_id, event) ==
    IF "user_ids" \in DOMAIN event.content
    THEN <<(<<"typing", room_id, event.content.user_ids>>)>> ELSE <<>>

\* the tuples one ephemeral event contributes: an empty user_ids list is a
\* "stopped typing" notice and contributes nothing
EphemeralTuples(room_id, event) ==
    IF "user_ids" \in DOMAIN event.content /\ event.content.user_ids # <<>>
    THEN <<(<<"typing", room_id, event.content.user_ids>>)>> ELSE <<>>

InviteTuples(key, event) ==
    IF "name" \in DOMAIN event.content
    THEN <<(<<"invite", key, event.content.name, event.sender>>)>> ELSE <<>>

ToDeviceTuples(event) ==
    IF event.type = "m.room.encrypted"
    THEN <<(<<"prekey", None, event.sender, event.content>>)>> ELSE <<>>

RECURSIVE TimelineOfRoom(_, _)
TimelineOfRoom(room_id, events) ==
    IF events = <<>> THEN <<>>
    ELSE TimelineTuples(room_id, Head(events)) \o TimelineOfRoom(room_id, Tail(events))

RECURSIVE EphemeralOfRoom(_, _)
EphemeralOfRoom(room_id, events) ==
    IF events = <<>> THEN <<>>
    ELSE EphemeralTuples(room_id, Head(events)) \o EphemeralOfRoom(room_id, Tail(events))

RECURSIVE InviteOfRoom(_, _)
InviteOfRoom(key, events) ==
    IF events = <<>> THEN <<>>
    ELSE InviteTuples(key, Head(events)) \o InviteOfRoom(key, Tail(events))

\* mutant: the timeline of every joined room of the response is read
RECURSIVE AllTimelines(_, _)
AllTimelines(rooms, resp_json) ==
    IF rooms = {} THEN <<>>
    ELSE LET r == CHOOSE x \in rooms : TRUE
         IN TimelineOfRoom(r, resp_json.rooms.join[r].timeline.events)
            \o AllTimelines(rooms \ {r}, resp_json)

TimelinePart_AllJoined(order, resp_json) ==
    AllTimelines(DOMAIN resp_json.rooms.join, resp_json)

RECURSIVE TimelinePart(_, _)
TimelinePart(order, resp_json) ==
    IF order = <<>> THEN <<>>
    ELSE (IF Head(order) \in DOMAIN resp_json.rooms.join
          THEN TimelineOfRoom(Head(order), resp_json.rooms.join[Head(order)].timeline.events)
          ELSE <<>>)
         \o TimelinePart(Tail(order), resp_json)

RECURSIVE EphemeralPart(_, _)
EphemeralPart(order, resp_json) ==
    IF order = <<>> THEN <<>>
    ELSE (IF Head(order) \in DOMAIN resp_json.rooms.join
          THEN EphemeralOfRoom(Head(order), resp_json.rooms.join[Head(order)].ephemeral.events)
          ELSE <<>>)
         \o EphemeralPart(Tail(order), resp_json)

RECURSIVE InvitePart(_)
InvitePart(invite) ==
    IF invite = <<>> THEN <<>>
    ELSE InviteOfRoom(Head(invite).room_id, Head(invite).invite_state.events)
         \o InvitePart(Tail(invite))

RECURSIVE ToDevicePart(_)
ToDevicePart(events) ==
    IF events = <<>> THEN <<>>
    ELSE ToDeviceTuples(Head(events)) \o ToDevicePart(Tail(events))

\* the orders in which a set built by list(set(...)) can be iterated
Orders(S) == {o \in [1..Cardinality(S) -> S] : \A i, j \in DOMAIN o : i # j => o[i] # o[j]}

\* get_filtered_event; torder and eorder are the iteration orders of the two
\* unique room lists
get_filtered_event(f, resp_json, torder, eorder) ==
    TimelinePart(torder, resp_json)
    \o EphemeralPart(eorder, resp_json)
    \o InvitePart(resp_json.rooms.invite)
    \o (IF DOMAIN resp_json.to_device # {} THEN ToDevicePart(resp_json.to_device.events) ELSE <<>>)
    \o (IF DOMAIN resp_json.device_one_time_keys_count # {}
        THEN <<(<<"otk", resp_json.device_one_time_keys_count.signed_curve25519>>)>> ELSE <<>>)

\* ------------------------------------------------------- general_queue
\* asyncio.Queue._wakeup_next: wake the first getter whose future is still pending;
\* getters whose future was cancelled are dropped
RECURSIVE wakeup_next(_)
wakeup_next(L) ==
    IF L.getters = <<>> THEN L
    ELSE LET g == Head(L.getters)
             L1 == [L EXCEPT !.getters = Tail(@)]
         IN IF L.tasks[g].must_cancel \/ L.tasks[g].fut_done
            THEN wakeup_next(L1)
            ELSE [L1 EXCEPT !.tasks[g].fut_done = TRUE, !.ready = Append(@, g)]

\* general_queue.put_nowait(item)
put_nowait(L, item) ==
    wakeup_next([L EXCEPT !.general_queue = Append(@, item)])

RECURSIVE put_all(_, _)
put_all(L, items) ==
    IF items = <<>> THEN L ELSE put_all(put_nowait(L, Head(items)), Tail(items))

\* ------------------------------------------------------- __wait_general_event
\* the subscriber list an event tag is routed to; None for an unknown tag
RoutedKind(tag) ==
    IF tag = "message" THEN "message"
    ELSE IF tag = "encryption" THEN "encryption"
    ELSE IF tag = "encrypted" THEN "encrypted"
    ELSE IF tag = "typing" THEN "typing"
    ELSE IF tag = "invite" THEN "invite"
    ELSE IF tag = "prekey" THEN "prekey"
    ELSE IF tag = "otk" THEN "otk"
    ELSE None

\* mutant: every subscriber of the kind receives the event, whatever its room
Receives_AnyRoom(kind, event, room_id) ==
    TRUE

\* mutant: prekey events go by the room the subscriber registered with
Receives_PrekeyByRoom(kind, event, room_id) ==
    IF kind \in {"message", "encryption", "encrypted", "typing", "prekey"}
    THEN event[2] = room_id
    ELSE TRUE

\* whether one subscriber entry receives the event
Receives(kind, event, room_id) ==
    IF kind \in {"message", "encryption", "encrypted", "typing"} THEN event[2] = room_id
    ELSE TRUE

\* what is put on the subscriber's queue: the event without its tag
Forwarded(kind, event) ==
    IF kind = "otk" THEN event[2] ELSE SubSeq(event, 2, Len(event))

\* one pass over a subscriber list for one event
RECURSIVE forward(_, _, _, _)
forward(dlv, kind, event, list) ==
    IF list = <<>> THEN dlv
    ELSE LET room_id == Head(list)[1]
             subscriber == Head(list)[2]
             d1 == IF Receives(kind, event, room_id)
                   THEN [dlv EXCEPT ![subscriber] = Append(@, Forwarded(kind, event))]
                   ELSE dlv
         IN forward(d1, kind, event, Tail(list))

\* mutant: the event is put on every queue, subscribed or not
dispatch_EveryQueue(sl, dlv, event) ==
    IF RoutedKind(event[1]) = None THEN dlv
    ELSE [q \in DOMAIN dlv |-> Append(dlv[q], Forwarded(RoutedKind(event[1]), event))]

\* the body of the dispatch loop for one event
dispatch(sl, dlv, event) ==
    IF RoutedKind(event[1]) = None THEN dlv
    ELSE forward(dlv, RoutedKind(event[1]), event, sl[RoutedKind(event[1])])

\* mutant: the newest event of the queue is taken first
RECURSIVE drain_Newest(_, _, _)
drain_Newest(sl, dlv, queue) ==
    IF queue = <<>> THEN dlv
    ELSE drain_Newest(sl, dispatch(sl, dlv, queue[Len(queue)]), SubSeq(queue, 1, Len(queue) - 1))

\* the dispatch loop runs without suspending while general_queue is not empty
RECURSIVE drain(_, _, _)
drain(sl, dlv, queue) ==
    IF queue = <<>> THEN dlv ELSE drain(sl, dispatch(sl, dlv, Head(queue)), Tail(queue))

\* one step of a __wait_general_event task, from the ready queue to its next suspension
wait_general_event(L, t) ==
    IF L.tasks[t].must_cancel
    THEN \* CancelledError: inside general_queue.get() the getter is withdrawn, and a
         \* wake-up that was already delivered is passed on to the next getter
         LET woken == L.tasks[t].fut_done
             L1 == [L EXCEPT !.tasks[t].pc = "cancelled",
                             !.tasks[t].fut_done = FALSE,
                             !.getters = SelectSeq(@, LAMBDA g : g # t)]
         IN IF L.tasks[t].pc = "wait" /\ woken /\ L.general_queue # <<>>
            THEN wakeup_next(L1) ELSE L1
    ELSE [L EXCEPT !.delivered = drain(subscriber_list, @, L.general_queue),
                   !.general_queue = <<>>,
                   !.tasks[t].pc = "wait",
                   !.tasks[t].fut_done = FALSE,
                   !.getters = Append(@, t)]

\* ------------------------------------------------------- __sync_task
\* api.sync(): the priming request carries no filter, and no since token while unset
prime_request(L, t, since) ==
    [L EXCEPT !.tasks[t].pc = "prime",
              !.tasks[t].fut_done = FALSE,
              !.tasks[t].resp = NoResp,
              !.tasks[t].req = [since |-> since, filtered |-> FALSE]]

\* api.sync(event_filter): the request carries the since token and the filter string
sync_request(L, t, since, event_filter) ==
    [L EXCEPT !.tasks[t].pc = "poll",
              !.tasks[t].fut_done = FALSE,
              !.tasks[t].resp = NoResp,
              !.tasks[t].req = [since |-> since, filtered |-> TRUE, filter |-> event_filter]]

\* the task ends, by CancelledError or by the AiomatrixError of a failed request
finish(L, t, how) ==
    [L EXCEPT !.tasks[t].pc = how,
              !.tasks[t].fut_done = FALSE,
              !.tasks[t].resp = NoResp,
              !.tasks[t].req = NoReq]

\* whether __sync_task primes the cursor before its loop
NeedsPriming_Always(token) ==
    TRUE

NeedsPriming(token) ==
    token = 0

\* ------------------------------------------------------- responses that lack a section
\* the sections and fields of a sync response a home-server may leave out
ResponseFields == {"rooms", "join", "invite", "timeline", "ephemeral", "to_device",
                   "device_one_time_keys_count"}

\* the response without one of its sections; nothing is left out for None
Lacking(resp_json, field) ==
    CASE field \in {"rooms", "to_device", "device_one_time_keys_count"} ->
            [k \in DOMAIN resp_json \ {field} |-> resp_json[k]]
      [] field = "join" -> [resp_json EXCEPT !.rooms = [invite |-> resp_json.rooms.invite]]
      [] field = "invite" -> [resp_json EXCEPT !.rooms = [join |-> resp_json.rooms.join]]
      [] field \in {"timeline", "ephemeral"} ->
            [resp_json EXCEPT !.rooms.join =
                [r \in DOMAIN resp_json.rooms.join |->
                    [k \in DOMAIN resp_json.rooms.join[r] \ {field} |->
                        resp_json.rooms.join[r][k]]]]
      [] OTHER -> resp_json

\* whether a loop of get_filtered_event over the rooms of a unique room list
\* subscripts a key the response does not have
SectionKeyError(rooms, resp_json, section) ==
    /\ rooms # <<>>
    /\ \/ "rooms" \notin DOMAIN resp_json
       \/ "join" \notin DOMAIN resp_json.rooms
       \/ \E i \in DOMAIN rooms :
            /\ rooms[i] \in DOMAIN resp_json.rooms.join
            /\ section \notin DOMAIN resp_json.rooms.join[rooms[i]]

\* whether get_filtered_event ends with a KeyError: every section is read with a
\* plain subscript
get_filtered_event_KeyError(f, resp_json) ==
    \/ SectionKeyError(get_unique_list(f.timeline_rooms), resp_json, "timeline")
    \/ SectionKeyError(get_unique_list(f.ephemeral_rooms), resp_json, "ephemeral")
    \/ "rooms" \notin DOMAIN resp_json
    \/ "invite" \notin DOMAIN resp_json.rooms
    \/ "to_device" \notin DOMAIN resp_json
    \/ "device_one_time_keys_count" \notin DOMAIN resp_json

\* mutant: the token is only stored when the response reports something
SinceAfter_OnlyWithEvents(task) ==
    IF task.type = "sync" /\ ~task.must_cancel /\ task.pc \in {"prime", "poll"}
       /\ task.resp.status = 200
       /\ (DOMAIN task.resp.rooms.join # {} \/ task.resp.rooms.invite # <<>>)
    THEN task.resp.next_batch ELSE since_token

\* the since token after a task step
SinceAfter(task) ==
    IF task.type = "sync" /\ ~task.must_cancel /\ task.pc \in {"prime", "poll"}
       /\ task.resp.status = 200
    THEN task.resp.next_batch ELSE since_token

\* one step of a __sync_task task, from the ready queue to its next suspension
run_sync_task(L, t, torder, eorder) ==
    LET task == L.tasks[t]
    IN IF task.must_cancel THEN finish(L, t, "cancelled")
       ELSE IF task.pc = "start"
       THEN IF NeedsPriming(since_token)
            THEN prime_request(L, t, since_token)
            ELSE sync_request(L, t, since_token, get_filter_dict(filter))
       ELSE IF task.resp.status # 200 THEN finish(L, t, "failed")
       ELSE IF task.pc = "prime"
       THEN sync_request(L, t, task.resp.next_batch, get_filter_dict(filter))
       ELSE IF get_filtered_event_KeyError(filter, task.resp) THEN finish(L, t, "failed")
       ELSE sync_request(put_all(L, get_filtered_event(filter, task.resp, torder, eorder)),
                         t, task.resp.next_batch, get_filter_dict(filter))

\* ------------------------------------------------------- Room and Session: encryption
\* number of encrypted send_message calls
MaxSends == 2
\* number of times the process is started again
MaxRestarts == 1
\* number of events a remote device sends to the room or to this device
MaxRemote == 4

OwnUser == "@me:hs"
OwnDevice == "MYDEV"
\* the room of the Room object, and another room of the account
RoomId == "r1"
OtherRoom == "r2"
SupportedVersion == "m.megolm.v1.aes-sha2"
OtherVersion == "m.other.v0"
\* the devices of the other room members, in the order activate_encryption visits them
PeerDevices == << <<"@b:hs", "B1">>, <<"@b:hs", "B2">> >>

\* the members of a room with their devices, as the homeserver lists them: the own
\* user first, alone in the room or together with the other member
OwnMember == << <<OwnUser, OwnDevice>> >>
Memberships == {OwnMember, OwnMember \o PeerDevices}

\* the devices the loop of activate_encryption visits: those of every member but the
\* own user
OtherDevices(members) == SelectSeq(members, LAMBDA d : d[1] # OwnUser)
\* the remote device that has a group session of its own for the room
RemoteUser == "@b:hs"
RemoteDevice == "B1"
RemoteSessionId == "rs1"
\* the ids the crypto provider gives to the outbound group sessions it creates
SessionIds == <<"s1", "s2">>
Plaintexts == <<"text1", "text2", "text3">>

\* the curve25519 identity key of a device
DeviceKey(device_id) == <<"curve25519", device_id>>

\* olm.OutboundGroupSession(): a new session id, the ratchet at its start
OutboundGroupSession(id) == [kind |-> "outbound", id |-> id, index |-> 0]
\* OutboundGroupSession.session_key: the key exported at the current ratchet index
SessionKey(ses) == [id |-> ses.id, index |-> ses.index]
\* olm.InboundGroupSession(session_key): decrypts from the exported index on
InboundGroupSession(session_key) ==
    [kind |-> "inbound", id |-> session_key.id, index |-> session_key.index]
NoSession == [kind |-> "none", id |-> None, index |-> 0]

\* pickle(password) and from_pickle(blob, password)
Pickle(ses) == [pickled |-> ses]
FromPickle(blob) == blob.pickled
PickleAll(dict) == [k \in DOMAIN dict |-> Pickle(dict[k])]

\* a pickle file that does not exist
NoFile == [exists |-> FALSE, dict |-> <<>>]

\* the orchestration state as one record, and its assignment back to the variables
Orch == [room |-> room, olm_sessions |-> olm_sessions, disk |-> disk, server |-> server]

SetOrch(R) ==
    /\ room' = R.room
    /\ olm_sessions' = R.olm_sessions
    /\ disk' = R.disk
    /\ server' = R.server

\* Session.save_obj(obj, name)
save_obj(R, obj, name) ==
    [R EXCEPT !.disk[name] = [exists |-> TRUE, dict |-> obj]]

\* Room.set_room_key
set_room_key(R, user_id, device_id, meg_ses_id, meg_ses) ==
    LET keys == (<<user_id, device_id, meg_ses_id>> :> meg_ses) @@ R.room.room_keys
    IN save_obj([R EXCEPT !.room.room_keys = keys], PickleAll(keys), "megOlmSessions")

\* Room.set_meg_ses: room_keys[(user_id, device_id, None)] is the same object as meg_ses
set_meg_ses(R, meg_ses) ==
    set_room_key([R EXCEPT !.room.meg_ses = meg_ses], OwnUser, OwnDevice, None, meg_ses)

\* Session.set_olm_session
set_olm_session(R, user_id, key, ses) ==
    LET sessions == (<<user_id, key>> :> ses) @@ R.olm_sessions
    IN save_obj([R EXCEPT !.olm_sessions = sessions], PickleAll(sessions), "olmSessions")

\* loop.create_task(self.wait_olm_megolm_prekey()) and (self.wait_enc_message())
start_handlers(R) ==
    [R EXCEPT !.room.prekey_task = "running", !.room.encrypted_task = "running",
              !.room.handlers_started = @ + 1]

\* api.encrypt_room: the m.room.encryption state event
encrypt_room(R) ==
    [R EXCEPT !.server.events =
        Append(@, [type |-> "m.room.encryption", sender |-> OwnUser,
                   content |-> [algorithm |-> SupportedVersion]])]

\* mutant: the activation event is sent whether or not the room is encrypted
activate_encryption_AlwaysAnnounces(R, id) ==
    LET R1 == encrypt_room(R)
        R2 == set_meg_ses(R1, OutboundGroupSession(id))
        R3 == IF R2.room.encrypted_task = "none" /\ R2.room.prekey_task = "none"
              THEN start_handlers(R2) ELSE R2
    IN set_room_key(R3, OwnUser, OwnDevice, R3.room.meg_ses.id,
                    InboundGroupSession(SessionKey(R3.room.meg_ses)))

\* mutant: the handler tasks are created whether or not the room has them
activate_encryption_AlwaysStarts(R, id) ==
    LET R1 == IF ~R.room.is_encrypted THEN encrypt_room(R) ELSE R
        R2 == set_meg_ses(R1, OutboundGroupSession(id))
        R3 == start_handlers(R2)
    IN set_room_key(R3, OwnUser, OwnDevice, R3.room.meg_ses.id,
                    InboundGroupSession(SessionKey(R3.room.meg_ses)))

\* activate_encryption up to the request for the room members
activate_encryption(R, id) ==
    LET R1 == IF ~R.room.is_encrypted THEN encrypt_room(R) ELSE R
        R2 == set_meg_ses(R1, OutboundGroupSession(id))
        R3 == IF R2.room.encrypted_task = "none" /\ R2.room.prekey_task = "none"
              THEN start_handlers(R2) ELSE R2
    IN set_room_key(R3, OwnUser, OwnDevice, R3.room.meg_ses.id,
                    InboundGroupSession(SessionKey(R3.room.meg_ses)))

\* api.keys_query_and_verify: the identity keys of the device, verified against the
\* signature of the device's key block; a signature that does not verify is an error
keys_query_and_verify(R, user_id, device_id) ==
    [raised |-> R.server.keys[device_id].identity = "tampered",
     dev_key_id |-> DeviceKey(device_id),
     dev_key_sign |-> <<"ed25519", device_id>>]

\* api.keys_claim_and_verify: claims one one-time key of the device, which the server
\* then no longer holds, and verifies its signature; nothing when the server has none
keys_claim_and_verify(R, user_id, device_id, dev_key_sign) ==
    LET otk == R.server.keys[device_id].otk
    IN [raised |-> otk = "tampered",
        otk |-> IF otk = "valid" THEN <<"otk", device_id>> ELSE None,
        R |-> [R EXCEPT !.server.keys[device_id].otk = "none"]]

\* api.send_olm_pr_msg: the pairwise prekey message, to one device
send_olm_pr_msg(R, receiver, rec_dev_id, ses) ==
    [R EXCEPT !.server.to_device =
        Append(@, [receiver |-> receiver, device_id |-> rec_dev_id, type |-> 0,
                   body |-> [type |-> "m.dummy"]])]

\* api.send_megolm_pr_msg: the room key, wrapped in the pairwise session, to one device
send_megolm_pr_msg(R, room_id, receiver, rec_dev_id, ses, meg_ses) ==
    [R EXCEPT !.server.to_device =
        Append(@, [receiver |-> receiver, device_id |-> rec_dev_id, type |-> 1,
                   body |-> [type |-> "m.room_key", sender_device |-> OwnDevice,
                             content |-> [algorithm |-> SupportedVersion,
                                          room_id |-> room_id,
                                          session_id |-> meg_ses.id,
                                          session_key |-> SessionKey(meg_ses)]]])]

\* mutant: a key block whose signature does not verify is used all the same
enc_send_megolm_info_Unverified(R, partner_user_id, partner_device_id) ==
    LET queried == keys_query_and_verify(R, partner_user_id, partner_device_id)
        claimed == keys_claim_and_verify(R, partner_user_id, partner_device_id,
                                         queried.dev_key_sign)
        ses == [kind |-> "outbound", otk |-> claimed.otk]
        R1 == set_olm_session(claimed.R, partner_user_id, queried.dev_key_id, ses)
        R2 == send_olm_pr_msg(R1, partner_user_id, partner_device_id, ses)
        R3 == send_megolm_pr_msg(R2, RoomId, partner_user_id, partner_device_id, ses,
                                 R2.room.meg_ses)
    IN IF claimed.otk = None
       THEN [raised |-> TRUE, error |-> "no_otk", R |-> claimed.R]
       ELSE [raised |-> FALSE, error |-> "none", R |-> [R3 EXCEPT !.room.is_encrypted = TRUE]]

\* mutant: a device without a one-time key is skipped silently
enc_send_megolm_info_SkipsNoOtk(R, partner_user_id, partner_device_id) ==
    LET queried == keys_query_and_verify(R, partner_user_id, partner_device_id)
        claimed == keys_claim_and_verify(R, partner_user_id, partner_device_id,
                                         queried.dev_key_sign)
        ses == [kind |-> "outbound", otk |-> claimed.otk]
        R1 == set_olm_session(claimed.R, partner_user_id, queried.dev_key_id, ses)
        R2 == send_olm_pr_msg(R1, partner_user_id, partner_device_id, ses)
        R3 == send_megolm_pr_msg(R2, RoomId, partner_user_id, partner_device_id, ses,
                                 R2.room.meg_ses)
    IN IF queried.raised THEN [raised |-> TRUE, error |-> "verification", R |-> R]
       ELSE IF claimed.raised
       THEN [raised |-> TRUE, error |-> "verification", R |-> claimed.R]
       ELSE IF claimed.otk = None
       THEN [raised |-> FALSE, error |-> "none", R |-> claimed.R]
       ELSE [raised |-> FALSE, error |-> "none", R |-> [R3 EXCEPT !.room.is_encrypted = TRUE]]

\* Room.__enc_send_megolm_info: the exception it ends with, if any, and the state
\* it leaves
enc_send_megolm_info(R, partner_user_id, partner_device_id) ==
    LET queried == keys_query_and_verify(R, partner_user_id, partner_device_id)
        claimed == keys_claim_and_verify(R, partner_user_id, partner_device_id,
                                         queried.dev_key_sign)
        ses == [kind |-> "outbound", otk |-> claimed.otk]
        R1 == set_olm_session(claimed.R, partner_user_id, queried.dev_key_id, ses)
        R2 == send_olm_pr_msg(R1, partner_user_id, partner_device_id, ses)
        R3 == send_megolm_pr_msg(R2, RoomId, partner_user_id, partner_device_id, ses,
                                 R2.room.meg_ses)
    IN IF queried.raised THEN [raised |-> TRUE, error |-> "verification", R |-> R]
       ELSE IF claimed.raised
       THEN [raised |-> TRUE, error |-> "verification", R |-> claimed.R]
       ELSE IF claimed.otk = None
       THEN [raised |-> TRUE, error |-> "no_otk", R |-> claimed.R]
       ELSE [raised |-> FALSE, error |-> "none", R |-> [R3 EXCEPT !.room.is_encrypted = TRUE]]

\* json.dumps and json.loads
json_dumps(obj) == [json |-> obj]
json_loads(text) == text.json

\* OutboundGroupSession.encrypt: the ciphertext carries the ratchet index it was made
\* at, and the ratchet advances
megolm_encrypt(ses, plaintext) ==
    [ciphertext |-> [session_id |-> ses.id, index |-> ses.index, data |-> plaintext],
     ses |-> [ses EXCEPT !.index = @ + 1]]

\* InboundGroupSession.decrypt: (plaintext, message index), or an error for another
\* session or an index before the first one the session knows
megolm_decrypt(ses, ciphertext) ==
    IF ciphertext.session_id = ses.id /\ ciphertext.index >= ses.index
    THEN [raised |-> FALSE, value |-> <<ciphertext.data, ciphertext.index>>]
    ELSE [raised |-> TRUE, value |-> None]

\* element i of a Python tuple
Py(message, i) == message[i + 1]

\* the encrypted room event of one message: the payload is the JSON of the
\* m.room.message event, encrypted with the outbound group session
EncryptedEvent(sender, device_id, ciphertext) ==
    [type |-> "m.room.encrypted", sender |-> sender,
     content |-> [ciphertext |-> ciphertext, device_id |-> device_id,
                  session_id |-> ciphertext.session_id]]

MessagePayload(room_id, message) ==
    json_dumps([type |-> "m.room.message", room_id |-> room_id,
                content |-> [msgtype |-> "m.text", body |-> message]])

\* the encrypting half of api.send_enc: meg_ses.encrypt advances the ratchet of the
\* object that room_keys[(user_id, device_id, None)] also names, if it names one
send_enc_encrypt(R, room_id, message) ==
    LET enc == megolm_encrypt(R.room.meg_ses, MessagePayload(room_id, message))
        own == <<OwnUser, OwnDevice, None>>
        keys == IF own \in DOMAIN R.room.room_keys
                THEN [R.room.room_keys EXCEPT ![own] = enc.ses]
                ELSE R.room.room_keys
    IN [ciphertext |-> enc.ciphertext,
        R |-> [R EXCEPT !.room.meg_ses = enc.ses, !.room.room_keys = keys]]

\* the sending half of api.send_enc: the PUT of the m.room.encrypted event
send_enc_put(R, device_id, ciphertext) ==
    [R EXCEPT !.server.events = Append(@, EncryptedEvent(OwnUser, device_id, ciphertext))]

\* api.room_send_message
room_send_message(R, message) ==
    [R EXCEPT !.server.events =
        Append(@, [type |-> "m.room.message", sender |-> OwnUser,
                   content |-> [msgtype |-> "m.text", body |-> message]])]

\* the tail of send_message: every entry of room_keys pickled and saved
send_message_save(R) ==
    save_obj(R, PickleAll(R.room.room_keys), "megOlmSessions")

\* Room.__init__: the room as constructed over the files d of the save directory
RoomInit(d) ==
    LET file == d.megOlmSessions
        new == [is_encrypted |-> FALSE, meg_ses |-> NoSession, room_keys |-> <<>>,
                prekey_task |-> "none", encrypted_task |-> "none",
                encryption_task |-> "running", handlers_started |-> 0]
        own == {entry \in DOMAIN file.dict : entry[3] = None}
    IN IF ~file.exists THEN new
       ELSE [new EXCEPT
               !.meg_ses = IF own = {} THEN NoSession
                           ELSE FromPickle(file.dict[CHOOSE entry \in own : TRUE]),
               !.room_keys = [entry \in DOMAIN file.dict \ own |->
                                FromPickle(file.dict[entry])],
               !.is_encrypted = TRUE,
               !.prekey_task = "running",
               !.encrypted_task = "running",
               !.handlers_started = 1]

\* Session.__init__: the pairwise sessions loaded from olmSessions.pkl, if it exists
SessionInit(d) ==
    IF d.olmSessions.exists
    THEN [k \in DOMAIN d.olmSessions.dict |-> FromPickle(d.olmSessions.dict[k])]
    ELSE <<>>

\* the to-device event a remote device announces a group session with; it reaches
\* this device as the part of the ciphertext made for this device's key
PrekeyEvent(sender, sender_device, type, room_id, ses) ==
    [type |-> "m.room.encrypted", sender |-> sender,
     content |-> [sender_key |-> DeviceKey(sender_device),
                  ciphertext |->
                    [type |-> type,
                     body |-> json_dumps(
                        [type |-> "m.room_key", sender_device |-> sender_device,
                         content |-> [algorithm |-> SupportedVersion,
                                      room_id |-> room_id,
                                      session_id |-> ses.id,
                                      session_key |-> SessionKey(ses)]])]]]

\* mutant: a continuation message without a stored session is taken as a new session
wait_olm_megolm_prekey_AnySession(R, message) ==
    LET sender_id == Py(message, 1)
        content == Py(message, 2)
        sender_key == content.sender_key
        known == <<sender_id, sender_key>> \in DOMAIN R.olm_sessions
        R1 == IF content.ciphertext.type = 0 \/ ~known
              THEN set_olm_session(R, sender_id, sender_key,
                                   [kind |-> "inbound", otk |-> None])
              ELSE R
        msg == json_loads(content.ciphertext.body)
    IN IF msg.content.room_id # RoomId
       THEN [task |-> "ended", R |-> [R1 EXCEPT !.room.prekey_task = "ended"]]
       ELSE [task |-> "running",
             R |-> set_room_key(R1, sender_id, msg.sender_device, msg.content.session_id,
                                InboundGroupSession(msg.content.session_key))]

\* the body of wait_olm_megolm_prekey for one message: the task's state and the
\* orchestration state it leaves
wait_olm_megolm_prekey(R, message) ==
    LET sender_id == Py(message, 1)
        content == Py(message, 2)
        sender_key == content.sender_key
        known == <<sender_id, sender_key>> \in DOMAIN R.olm_sessions
        R1 == IF content.ciphertext.type = 0
              THEN set_olm_session(R, sender_id, sender_key,
                                   [kind |-> "inbound", otk |-> None])
              ELSE R
        msg == json_loads(content.ciphertext.body)
    IN IF content.ciphertext.type # 0 /\ ~known
       THEN [task |-> "failed", R |-> [R EXCEPT !.room.prekey_task = "failed"]]
       ELSE IF msg.content.room_id # RoomId
       THEN [task |-> "ended", R |-> [R1 EXCEPT !.room.prekey_task = "ended"]]
       ELSE [task |-> "running",
             R |-> set_room_key(R1, sender_id, msg.sender_device, msg.content.session_id,
                                InboundGroupSession(msg.content.session_key))]

\* the body of wait_room_encryption for one message
wait_room_encryption(R, message) ==
    IF Py(message, 2) = SupportedVersion
    THEN LET R1 == [R EXCEPT !.room.is_encrypted = TRUE]
         IN IF R1.room.prekey_task = "none" /\ R1.room.encrypted_task = "none"
            THEN start_handlers(R1) ELSE R1
    ELSE [R EXCEPT !.room.encryption_task = "failed"]

\* the lookup of wait_enc_message: room_keys.get((sender, device, session id))
room_keys_get(R, message) ==
    LET key == <<Py(message, 1), Py(message, 3), Py(message, 4)>>
    IN IF key \in DOMAIN R.room.room_keys THEN R.room.room_keys[key] ELSE NoSession

\* mutant: the message type is taken for the body
DecryptedBody_MsgType(dec_msg) ==
    json_loads(dec_msg[1]).content.msgtype

\* msg_json['content']['body'] of the decrypted payload
DecryptedBody(dec_msg) ==
    json_loads(dec_msg[1]).content.body

\* ------------------------------------------------------- actions
\* no call has been made on the EventFilter directly
NoCall == [op |-> "none", prev |-> "none", event |-> None, room_id |-> None,
           raised |-> FALSE, before |-> EventFilter, built |-> get_filter_dict(EventFilter),
           resp_json |-> NoResp, events |-> <<>>]

\* the signed keys the homeserver holds for one device: the identity key block, and
\* the one-time key it would hand out next
KeyStates ==
    {[identity |-> "valid", otk |-> "valid"], [identity |-> "tampered", otk |-> "valid"],
     [identity |-> "valid", otk |-> "tampered"], [identity |-> "valid", otk |-> "none"]}
DeviceIds == {PeerDevices[i][2] : i \in DOMAIN PeerDevices}
ValidKeys == [d \in DeviceIds |-> [identity |-> "valid", otk |-> "valid"]]

NoOp == [name |-> "none", pc |-> "idle", idx |-> 0, message |-> None,
         result |-> "none", error |-> "none"]
NoOutcome == [outcome |-> "none", event_id |-> 0, body |-> None, lookups |-> 0]
Waiting == [pc |-> "waiting", message |-> <<>>, event_id |-> 0, last |-> NoOutcome]
NoInbox == [encryption |-> <<>>, prekey |-> <<>>, encrypted |-> <<>>]

\* ------------------------------------------------------- the olm account
\* number of olm.Account objects the process creates
MaxAccounts == 3
\* number of calls of Session.connect
MaxConnects == 4
\* acc.max_one_time_keys of the provider
MaxOneTimeKeys == 4
\* the password the session is constructed with
Password == "pw"

\* Account.pickle(password) and Account.from_pickle(pick, password): the pickle is
\* readable with the password it was written with (0: no account)
AccountPickle(acc, password) == [exists |-> TRUE, pickled |-> acc, key |-> password]
AccountFromPickle(pick, password) == IF pick.key = password THEN pick.pickled ELSE 0
NoAccountFile == [exists |-> FALSE, pickled |-> 0, key |-> ""]

\* a Session before connect, over a save directory without a pickled account, and a
\* home-server that has no keys of the device
NoAccount ==
    [pc |-> "idle", acc |-> 0, olm_account |-> 0, file |-> NoAccountFile, created |-> 0,
     connects |-> 0, device_keys |-> <<>>, otk_uploads |-> <<>>]

\* a process started over an empty save directory, with the homeserver holding the
\* members of the room and the keys of their devices
RoomStart(members, keys) ==
    /\ account = NoAccount
    /\ disk = [olmSessions |-> NoFile, megOlmSessions |-> NoFile]
    /\ room = RoomInit(disk)
    /\ olm_sessions = SessionInit(disk)
    /\ op = NoOp
    /\ server = [members |-> members, keys |-> keys, events |-> <<>>, synced |-> 0,
                 to_device |-> <<>>]
    /\ inbox = NoInbox
    /\ enc_handler = Waiting
    /\ used = [sends |-> 0, restarts |-> 0, sessions |-> 0, remote |-> 0,
               remote_index |-> 0, announced |-> FALSE, plain |-> <<>>]

EngineInit ==
    /\ subscriber_list = [k \in Kinds |-> <<>>]
    /\ filter = EventFilter
    /\ since_token = 0
    /\ tasks = <<>>
    /\ sync_task = 0
    /\ rec_task = 0
    /\ ready = <<>>
    /\ getters = <<>>
    /\ general_queue = <<>>
    /\ delivered = [q \in 1..MaxQueues |-> <<>>]
    /\ handled = [q \in 1..MaxQueues |-> 0]
    /\ consumer = <<>>
    /\ generator = <<>>
    /\ batch = 0
    /\ serial = 0
    /\ call = NoCall

Init ==
    /\ EngineInit
    /\ RoomStart(OwnMember \o PeerDevices, ValidKeys)

\* the kinds and rooms the generators of Room and Session subscribe
EngineKinds == {"message", "encrypted", "typing", "invite"}
RoomsOfKind(event) == IF event \in {"invite", "otk"} THEN {None} ELSE Rooms

\* room ids are interchangeable: the first room any generator names is FirstRoom
FirstRoom == "r1"
RoomNamed(room_id) ==
    room_id \in Rooms \ {FirstRoom} => \E q \in DOMAIN consumer : consumer[q].room_id = FirstRoom

\* a generator (Room.get_message, get_typing, ..., Session.get_invite) creates its
\* queue and subscribes it
Subscribe ==
    \E event \in EngineKinds : \E room_id \in RoomsOfKind(event) :
        /\ Len(consumer) < MaxQueues
        /\ RoomNamed(room_id)
        /\ consumer' = Append(consumer, [event |-> event, room_id |-> room_id])
        /\ generator' = Append(generator, "waiting")
        /\ add_subscriber(event, Len(consumer) + 1, room_id)
        /\ UNCHANGED <<since_token, handled, batch, serial, call, account, enc_vars>>

\* where a generator stands after the CancelledError it caught in its loop: an
\* exception of remove_subscriber leaves the except clause and ends the generator,
\* otherwise the loop goes round and awaits the queue again
AfterCancel(raised) == IF raised THEN "raised" ELSE "waiting"

\* a generator is cancelled and removes its subscription
Unsubscribe ==
    \E queue \in DOMAIN consumer :
        /\ generator[queue] = "waiting"
        /\ Contains(subscriber_list[consumer[queue].event], <<consumer[queue].room_id, queue>>)
        /\ remove_subscriber(consumer[queue].event, queue, consumer[queue].room_id)
        /\ generator' = [generator EXCEPT ![queue] =
               AfterCancel(remove_filter(filter, consumer[queue].event,
                                         consumer[queue].room_id).raised)]
        /\ UNCHANGED <<since_token, handled, consumer, batch, serial, call, account, enc_vars>>

\* a generator that already removed its subscription is cancelled once more: its
\* except clause calls remove_subscriber again, whose list.remove raises ValueError
\* for the entry that is no longer registered
CancelUnsubscribed ==
    \E queue \in DOMAIN consumer :
        /\ generator[queue] = "waiting"
        /\ ListRemove(subscriber_list[consumer[queue].event],
                      <<consumer[queue].room_id, queue>>).raised
        /\ generator' = [generator EXCEPT ![queue] = AfterCancel(TRUE)]
        /\ UNCHANGED <<subscriber_list, filter, since_token, tasks, sync_task, rec_task,
                       ready, getters, general_queue, delivered, handled, consumer, batch,
                       serial, call, account, enc_vars>>

\* the lists of events one response can report, numbered from id
RECURSIVE EventLists(_, _)
EventLists(id, n) ==
    IF n = 0 THEN {<<>>}
    ELSE {<<>>} \cup {<<e>> \o rest : e \in ServerEvents(id), rest \in EventLists(id + 1, n - 1)}

\* whether a task has a sync request in flight
InFlight(task) ==
    task.type = "sync" /\ task.pc \in {"prime", "poll"} /\ ~task.fut_done /\ ~task.must_cancel

\* the home-server answers the sync request in flight
SyncResponse ==
    \E t \in DOMAIN tasks : \E evs \in EventLists(serial + 1, MaxRespEvents) :
        /\ InFlight(tasks[t])
        /\ batch < MaxBatch
        /\ serial + Len(evs) <= MaxEvents
        /\ batch' = batch + 1
        /\ serial' = serial + Len(evs)
        /\ tasks' = [tasks EXCEPT ![t].fut_done = TRUE, ![t].resp = SyncJson(batch + 1, evs)]
        /\ ready' = Append(ready, t)
        /\ UNCHANGED <<subscriber_list, filter, since_token, sync_task, rec_task, getters,
                       general_queue, delivered, handled, consumer, other_vars>>

\* the sync request in flight fails with a non-200 status
TransportError ==
    \E t \in DOMAIN tasks :
        /\ InFlight(tasks[t])
        /\ batch < MaxBatch
        /\ batch' = batch + 1
        /\ tasks' = [tasks EXCEPT ![t].fut_done = TRUE, ![t].resp = ErrorResponse]
        /\ ready' = Append(ready, t)
        /\ UNCHANGED <<subscriber_list, filter, since_token, sync_task, rec_task, getters,
                       general_queue, delivered, handled, consumer, serial, other_vars>>

\* the event loop runs the next ready task, a __sync_task
SyncStep ==
    /\ ready # <<>>
    /\ tasks[Head(ready)].type = "sync"
    /\ \E torder \in Orders(Range(get_unique_list(filter.timeline_rooms))) :
       \E eorder \in Orders(Range(get_unique_list(filter.ephemeral_rooms))) :
           SetRuntime(run_sync_task([Runtime EXCEPT !.ready = Tail(@)], Head(ready), torder, eorder))
    /\ since_token' = SinceAfter(tasks[Head(ready)])
    /\ UNCHANGED <<subscriber_list, filter, handled, consumer, batch, serial, other_vars>>

\* the event loop runs the next ready task, a __wait_general_event
RecStep ==
    /\ ready # <<>>
    /\ tasks[Head(ready)].type = "rec"
    /\ SetRuntime(wait_general_event([Runtime EXCEPT !.ready = Tail(@)], Head(ready)))
    /\ UNCHANGED <<subscriber_list, filter, since_token, handled, consumer, batch, serial, other_vars>>

\* mutant: the decrypted message is put on general_queue twice
wait_enc_message_Twice(queue, found) ==
    LET message == delivered[queue][handled[queue] + 1]
        msg == MegolmDecrypt(message[5], message[3])
        event == <<"message", message[1], message[2], msg>>
    IN /\ consumer[queue].event = "encrypted"
       /\ handled[queue] < Len(delivered[queue])
       /\ handled' = [handled EXCEPT ![queue] = @ + 1]
       /\ IF found
          THEN SetRuntime(put_nowait(put_nowait(Runtime, event), event))
          ELSE SetRuntime(Runtime)
       /\ UNCHANGED <<subscriber_list, filter, since_token, consumer, batch, serial, other_vars>>

\* Room.wait_enc_message takes the next encrypted event from its queue; found tells
\* whether room_keys holds the group session at the first or the second lookup
wait_enc_message(queue, found) ==
    LET message == delivered[queue][handled[queue] + 1]
        msg == MegolmDecrypt(message[5], message[3])
    IN /\ consumer[queue].event = "encrypted"
       /\ handled[queue] < Len(delivered[queue])
       /\ handled' = [handled EXCEPT ![queue] = @ + 1]
       /\ IF found
          THEN SetRuntime(put_nowait(Runtime, <<"message", message[1], message[2], msg>>))
          ELSE SetRuntime(Runtime)
       /\ UNCHANGED <<subscriber_list, filter, since_token, consumer, batch, serial, other_vars>>

WaitEncMessage ==
    \E queue \in DOMAIN consumer : \E found \in BOOLEAN : wait_enc_message(queue, found)

Next ==
    \/ Subscribe
    \/ Unsubscribe
    \/ SyncResponse
    \/ TransportError
    \/ SyncStep
    \/ RecStep
    \/ WaitEncMessage

Spec == Init /\ [][Next]_vars

\* ------------------------------------------------------- EventFilter called directly
\* number of (event, room_id) entries an EventFilter holds
MaxFilterEntries == 3

\* the variables of the engine other than its filter
engine_rest == <<subscriber_list, since_token, tasks, sync_task, rec_task, ready, getters,
                 general_queue, delivered, handled, consumer, generator, account, batch,
                 serial, enc_vars>>

\* the room ids a kind is set or removed with
RoomArgs(event) == IF event \in RoomKinds THEN Rooms ELSE {None}

\* an ephemeral event that is no typing notice: its content has no user_ids
ReceiptEvents ==
    {[sec |-> "ephemeral", room |-> r,
      ev |-> [type |-> "m.receipt",
              content |-> [event_id |-> "$1", receipt |-> "m.read"]]] : r \in Rooms}

\* the lists of events a response handed to get_filtered_event can report
RECURSIVE ResponseLists(_, _)
ResponseLists(id, n) ==
    IF n = 0 THEN {<<>>}
    ELSE {<<>>} \cup {<<e>> \o rest : e \in ServerEvents(id) \cup ReceiptEvents,
                                     rest \in ResponseLists(id + 1, n - 1)}

\* EventFilter.set_filter(event, room_id)
FilterSet ==
    \E event \in Kinds : \E room_id \in RoomArgs(event) :
        /\ Len(filter.timeline_rooms) + Len(filter.ephemeral_rooms) < MaxFilterEntries
        /\ filter' = set_filter(filter, event, room_id)
        /\ call' = [NoCall EXCEPT !.op = "set", !.prev = call.op, !.event = event,
                                  !.room_id = room_id, !.before = filter]
        /\ UNCHANGED engine_rest

\* EventFilter.remove_filter(event, room_id), of a pair that is set or not
FilterRemove ==
    \E event \in Kinds : \E room_id \in RoomArgs(event) :
        LET removed == remove_filter(filter, event, room_id)
        IN /\ filter' = removed.filter
           /\ call' = [NoCall EXCEPT !.op = "remove", !.prev = call.op, !.event = event,
                                     !.room_id = room_id, !.raised = removed.raised,
                                     !.before = filter]
           /\ UNCHANGED engine_rest

\* EventFilter.get_filter_dict()
FilterBuild ==
    /\ call' = [NoCall EXCEPT !.op = "build", !.prev = call.op, !.before = filter,
                              !.built = get_filter_dict(filter)]
    /\ UNCHANGED <<filter, engine_rest>>

\* EventFilter.get_filtered_event(resp_json)
FilterExtract ==
    \E evs \in ResponseLists(1, MaxRespEvents) :
    \E torder \in Orders(Range(get_unique_list(filter.timeline_rooms))) :
    \E eorder \in Orders(Range(get_unique_list(filter.ephemeral_rooms))) :
        /\ call' = [NoCall EXCEPT !.op = "extract", !.prev = call.op, !.before = filter,
                                  !.resp_json = SyncJson(1, evs),
                                  !.events = get_filtered_event(filter, SyncJson(1, evs),
                                                                torder, eorder)]
        /\ UNCHANGED <<filter, engine_rest>>

FilterNext ==
    \/ FilterSet
    \/ FilterRemove
    \/ FilterBuild
    \/ FilterExtract

FilterSpec == Init /\ [][FilterNext]_vars

\* ------------------------------------------------------- get_filtered_event of such responses
\* the events of the responses that lack a section: none, or one event of the first
\* room
LackingLists ==
    {<<>>} \cup {<<e>> : e \in {x \in ServerEvents(1) : x.room = FirstRoom}}

\* EventFilter.get_filtered_event(resp_json) of a response that may lack a section
ExtractLacking ==
    \E evs \in LackingLists : \E field \in ResponseFields \cup {None} :
    \E torder \in Orders(Range(get_unique_list(filter.timeline_rooms))) :
    \E eorder \in Orders(Range(get_unique_list(filter.ephemeral_rooms))) :
        LET resp_json == Lacking(SyncJson(1, evs), field)
            raised == get_filtered_event_KeyError(filter, resp_json)
        IN /\ call' = [NoCall EXCEPT
                          !.op = "extract", !.prev = call.op, !.before = filter,
                          !.resp_json = resp_json, !.raised = raised,
                          !.events = IF raised THEN <<>>
                                     ELSE get_filtered_event(filter, resp_json, torder, eorder)]
           /\ UNCHANGED <<filter, engine_rest>>

ExtractNext ==
    \/ FilterSet
    \/ ExtractLacking

ExtractSpec == Init /\ [][ExtractNext]_vars

\* ------------------------------------------------------- one encrypted room
\* the engine's variables an operation of the room never touches
room_rest == <<subscriber_list, filter, since_token, handled, consumer, generator, account,
              batch, serial, call>>
\* the event loop's variables, touched only when a decrypted message is put back
runtime_vars == <<tasks, ready, getters, sync_task, rec_task, general_queue, delivered>>

\* the plaintext behind each event of the room, None for an event that carries none
Logged(events, message) ==
    [used EXCEPT !.plain = [i \in 1..Len(events) |->
                              IF i <= Len(@) THEN @[i] ELSE message]]

\* what the call of send_message or activate_encryption goes on with once every
\* device has its keys
AfterBootstrap(o) ==
    IF o.name = "send_message"
    THEN [o EXCEPT !.pc = "send_enc"]
    ELSE [o EXCEPT !.pc = "idle", !.result = "ok"]

\* the call after activate_encryption has asked for the members: into the loop over
\* the other members' devices, or past it when there is none
IntoBootstrap(o) ==
    IF OtherDevices(server.members) = <<>>
    THEN AfterBootstrap(o)
    ELSE [o EXCEPT !.pc = "bootstrap", !.idx = 1]

\* the caller awaits activate_encryption()
ActivateStart ==
    /\ op.pc = "idle"
    /\ used.sessions < Len(SessionIds)
    /\ LET R == activate_encryption(Orch, SessionIds[used.sessions + 1])
       IN /\ SetOrch(R)
          /\ used' = [Logged(R.server.events, None) EXCEPT !.sessions = @ + 1]
    /\ op' = IntoBootstrap([NoOp EXCEPT !.name = "activate_encryption"])
    /\ UNCHANGED <<inbox, enc_handler, runtime_vars, room_rest>>

\* one turn of the loop of activate_encryption over the devices of the other
\* members: an exception of __enc_send_megolm_info leaves the loop and the call
BootstrapDevice ==
    /\ op.pc = "bootstrap"
    /\ LET dev == OtherDevices(server.members)[op.idx]
           r == enc_send_megolm_info(Orch, dev[1], dev[2])
       IN /\ SetOrch(r.R)
          /\ op' = IF r.raised
                   THEN [op EXCEPT !.pc = "idle", !.result = "raised", !.error = r.error]
                   ELSE IF op.idx = Len(OtherDevices(server.members))
                   THEN [AfterBootstrap(op) EXCEPT !.idx = op.idx + 1]
                   ELSE [op EXCEPT !.idx = @ + 1]
    /\ UNCHANGED <<inbox, enc_handler, used, runtime_vars, room_rest>>

\* mutant: a room without an outbound session sends in the clear, encrypted or not
SendStart_PlainWithoutSession ==
    /\ op.pc = "idle"
    /\ used.sends < MaxSends
    /\ LET message == Plaintexts[used.sends + 1]
           call_op == [NoOp EXCEPT !.name = "send_message", !.message = message]
       IN IF ~room.is_encrypted \/ room.meg_ses = NoSession
          THEN LET R == room_send_message(Orch, message)
               IN /\ SetOrch(R)
                  /\ used' = [Logged(R.server.events, message) EXCEPT !.sends = @ + 1]
                  /\ op' = [call_op EXCEPT !.result = "ok"]
          ELSE /\ op' = [call_op EXCEPT !.pc = "send_enc"]
               /\ used' = [used EXCEPT !.sends = @ + 1]
               /\ UNCHANGED <<room, olm_sessions, disk, server>>
    /\ UNCHANGED <<inbox, enc_handler, runtime_vars, room_rest>>

\* the caller awaits send_message(message): in the clear for a room that is not
\* encrypted, else through activate_encryption first when there is no outbound session
SendStart ==
    /\ op.pc = "idle"
    /\ used.sends < MaxSends
    /\ LET message == Plaintexts[used.sends + 1]
           call_op == [NoOp EXCEPT !.name = "send_message", !.message = message]
       IN IF ~room.is_encrypted
          THEN LET R == room_send_message(Orch, message)
               IN /\ SetOrch(R)
                  /\ used' = [Logged(R.server.events, message) EXCEPT !.sends = @ + 1]
                  /\ op' = [call_op EXCEPT !.result = "ok"]
          ELSE IF room.meg_ses = NoSession
          THEN /\ used.sessions < Len(SessionIds)
               /\ LET R == activate_encryption(Orch, SessionIds[used.sessions + 1])
                  IN /\ SetOrch(R)
                     /\ used' = [Logged(R.server.events, None) EXCEPT
                                    !.sends = @ + 1, !.sessions = @ + 1]
               /\ op' = IntoBootstrap(call_op)
          ELSE /\ op' = [call_op EXCEPT !.pc = "send_enc"]
               /\ used' = [used EXCEPT !.sends = @ + 1]
               /\ UNCHANGED <<room, olm_sessions, disk, server>>
    /\ UNCHANGED <<inbox, enc_handler, runtime_vars, room_rest>>

\* api.send_enc: the message is encrypted, which advances the ratchet, and the event
\* is sent; a request that fails raises out of send_message
SendEnc ==
    /\ op.pc = "send_enc"
    /\ LET enc == send_enc_encrypt(Orch, RoomId, op.message)
       IN \/ LET R == send_enc_put(enc.R, OwnDevice, enc.ciphertext)
             IN /\ SetOrch(R)
                /\ used' = Logged(R.server.events, op.message)
                /\ op' = [op EXCEPT !.pc = "save"]
          \/ /\ SetOrch(enc.R)
             /\ op' = [op EXCEPT !.pc = "idle", !.result = "raised", !.error = "transport"]
             /\ UNCHANGED used
    /\ UNCHANGED <<inbox, enc_handler, runtime_vars, room_rest>>

\* send_message after the await of api.send_enc: the sessions are saved and the
\* call returns
SendSave ==
    /\ op.pc = "save"
    /\ SetOrch(send_message_save(Orch))
    /\ op' = [op EXCEPT !.pc = "idle", !.result = "ok"]
    /\ UNCHANGED <<inbox, enc_handler, used, runtime_vars, room_rest>>

\* the process ends, at any point, and is started again over the same save
\* directory: Session.__init__ and Room.__init__
Restart ==
    /\ used.restarts < MaxRestarts
    /\ room' = RoomInit(disk)
    /\ olm_sessions' = SessionInit(disk)
    /\ op' = NoOp
    /\ inbox' = NoInbox
    /\ enc_handler' = Waiting
    /\ used' = [used EXCEPT !.restarts = @ + 1]
    /\ UNCHANGED <<disk, server, runtime_vars, room_rest>>

\* an item of a handler's queue: the tuple the engine yields without its kind, and
\* the position of the event in the room's timeline when this device sent it
Item(tuple, event_id) == [message |-> Tail(tuple), event_id |-> event_id]

\* the engine hands an event of a remote member's device to the handler subscribed
\* to its kind: an m.room.encryption event, an encrypted message of the remote
\* group session, or the to-device announcement of that session
RemoteEvent ==
    /\ used.remote < MaxRemote
    /\ \/ \E algorithm \in {SupportedVersion, OtherVersion} :
            LET event == [type |-> "m.room.encryption", sender |-> RemoteUser,
                          content |-> [algorithm |-> algorithm]]
            IN /\ room.encryption_task = "running"
               /\ inbox' = [inbox EXCEPT !.encryption =
                              Append(@, Item(TimelineTuples(RoomId, event)[1], 0))]
               /\ used' = [used EXCEPT !.remote = @ + 1]
       \/ LET ses == [OutboundGroupSession(RemoteSessionId) EXCEPT
                         !.index = used.remote_index]
              enc == megolm_encrypt(ses, MessagePayload(RoomId, Plaintexts[3]))
              event == EncryptedEvent(RemoteUser, RemoteDevice, enc.ciphertext)
          IN /\ room.encrypted_task = "running"
             /\ inbox' = [inbox EXCEPT !.encrypted =
                            Append(@, Item(TimelineTuples(RoomId, event)[1], 0))]
             /\ used' = [used EXCEPT !.remote = @ + 1, !.remote_index = @ + 1]
       \/ \E room_id \in {RoomId, OtherRoom}, type \in {0, 1} :
            LET event == PrekeyEvent(RemoteUser, RemoteDevice, type, room_id,
                                     OutboundGroupSession(RemoteSessionId))
            IN /\ type = 1 => used.announced
               /\ room.prekey_task = "running"
               /\ inbox' = [inbox EXCEPT !.prekey =
                              Append(@, Item(ToDeviceTuples(event)[1], 0))]
               /\ used' = [used EXCEPT !.remote = @ + 1, !.announced = TRUE]
    /\ UNCHANGED <<room, olm_sessions, disk, op, server, enc_handler, runtime_vars,
                   room_rest>>

\* the engine hands the next event this device sent to the room back to the handler
\* subscribed to its kind
SyncRoomEvent ==
    /\ server.synced < Len(server.events)
    /\ LET event_id == server.synced + 1
           tuples == TimelineTuples(RoomId, server.events[event_id])
           kind == IF tuples = <<>> THEN "none" ELSE tuples[1][1]
       IN inbox' = IF kind = "encryption" /\ room.encryption_task = "running"
                   THEN [inbox EXCEPT !.encryption = Append(@, Item(tuples[1], event_id))]
                   ELSE IF kind = "encrypted" /\ room.encrypted_task = "running"
                   THEN [inbox EXCEPT !.encrypted = Append(@, Item(tuples[1], event_id))]
                   ELSE inbox
    /\ server' = [server EXCEPT !.synced = @ + 1]
    /\ UNCHANGED <<room, olm_sessions, disk, op, enc_handler, used, runtime_vars, room_rest>>

\* mutant: the error of wait_room_encryption ends the tasks of the engine as well
EncryptionHandle_AbortsEngine ==
    /\ room.encryption_task = "running"
    /\ inbox.encryption # <<>>
    /\ SetOrch(wait_room_encryption(Orch, Head(inbox.encryption).message))
    /\ inbox' = [inbox EXCEPT !.encryption = Tail(@)]
    /\ IF Py(Head(inbox.encryption).message, 2) = SupportedVersion
       THEN SetRuntime(Runtime)
       ELSE IF sync_task = 0 THEN SetRuntime(Runtime)
       ELSE SetRuntime(cancel(Runtime))
    /\ UNCHANGED <<op, enc_handler, used, room_rest>>

\* wait_room_encryption takes one message
EncryptionHandle ==
    /\ room.encryption_task = "running"
    /\ inbox.encryption # <<>>
    /\ SetOrch(wait_room_encryption(Orch, Head(inbox.encryption).message))
    /\ inbox' = [inbox EXCEPT !.encryption = Tail(@)]
    /\ UNCHANGED <<op, enc_handler, used, runtime_vars, room_rest>>

\* wait_olm_megolm_prekey takes one message
PrekeyHandle ==
    /\ room.prekey_task = "running"
    /\ inbox.prekey # <<>>
    /\ SetOrch(wait_olm_megolm_prekey(Orch, Head(inbox.prekey).message).R)
    /\ inbox' = [inbox EXCEPT !.prekey = Tail(@)]
    /\ UNCHANGED <<op, enc_handler, used, runtime_vars, room_rest>>

\* the end of one turn of wait_enc_message, with the session of the last lookup:
\* the message is decrypted and put back into the general queue, or dropped
enc_message_done(message, event_id, meg_ses, lookups) ==
    IF meg_ses = NoSession
    THEN /\ enc_handler' = [Waiting EXCEPT !.last =
                [outcome |-> "dropped", event_id |-> event_id, body |-> None,
                 lookups |-> lookups]]
         /\ UNCHANGED <<room, runtime_vars>>
    ELSE LET dec == megolm_decrypt(meg_ses, Py(message, 2))
         IN IF dec.raised
            THEN /\ room' = [room EXCEPT !.encrypted_task = "failed"]
                 /\ enc_handler' = [Waiting EXCEPT !.last =
                        [outcome |-> "failed", event_id |-> event_id, body |-> None,
                         lookups |-> lookups]]
                 /\ UNCHANGED runtime_vars
            ELSE LET msg == DecryptedBody(dec.value)
                 IN /\ SetRuntime(put_nowait(Runtime,
                            <<"message", Py(message, 0), Py(message, 1), msg>>))
                    /\ enc_handler' = [Waiting EXCEPT !.last =
                           [outcome |-> "decrypted", event_id |-> event_id, body |-> msg,
                            lookups |-> lookups]]
                    /\ UNCHANGED room

\* wait_enc_message takes one message: with no session for it, it sleeps
EncTake ==
    /\ room.encrypted_task = "running"
    /\ enc_handler.pc = "waiting"
    /\ inbox.encrypted # <<>>
    /\ LET item == Head(inbox.encrypted)
           meg_ses == room_keys_get(Orch, item.message)
       IN IF meg_ses = NoSession
          THEN /\ enc_handler' = [enc_handler EXCEPT !.pc = "sleeping",
                                     !.message = item.message, !.event_id = item.event_id]
               /\ UNCHANGED <<room, runtime_vars>>
          ELSE enc_message_done(item.message, item.event_id, meg_ses, 1)
    /\ inbox' = [inbox EXCEPT !.encrypted = Tail(@)]
    /\ UNCHANGED <<olm_sessions, disk, op, server, used, room_rest>>

\* mutant: after the sleep the message is dropped without a second lookup
EncSleepOver_NoRetry ==
    /\ enc_handler.pc = "sleeping"
    /\ enc_message_done(enc_handler.message, enc_handler.event_id, NoSession, 2)
    /\ UNCHANGED <<olm_sessions, disk, op, server, inbox, used, room_rest>>

\* asyncio.sleep(5) is over: the second lookup
EncSleepOver ==
    /\ enc_handler.pc = "sleeping"
    /\ enc_message_done(enc_handler.message, enc_handler.event_id,
                        room_keys_get(Orch, enc_handler.message), 2)
    /\ UNCHANGED <<olm_sessions, disk, op, server, inbox, used, room_rest>>

EncInit ==
    /\ EngineInit
    /\ \E members \in Memberships :
         \E keys \in IF OtherDevices(members) = <<>>
                     THEN {ValidKeys} ELSE [DeviceIds -> KeyStates] :
            RoomStart(members, keys)

\* this device's own calls, the echo of its own events, and restarts
EncNext ==
    \/ ActivateStart
    \/ BootstrapDevice
    \/ SendStart
    \/ SendEnc
    \/ SendSave
    \/ Restart
    \/ SyncRoomEvent
    \/ EncryptionHandle
    \/ EncTake

EncSpec == EncInit /\ [][EncNext]_vars

\* the handlers of the room over the events of a remote device, and restarts
RecvNext ==
    \/ RemoteEvent
    \/ EncryptionHandle
    \/ PrekeyHandle
    \/ EncTake
    \/ EncSleepOver
    \/ Restart

RecvSpec == Init /\ [][RecvNext]_vars

\* the caller sends messages while the handlers of the room work on the events of a
\* remote device
RoomNext ==
    \/ SendStart
    \/ BootstrapDevice
    \/ SendEnc
    \/ SendSave
    \/ RemoteEvent
    \/ EncryptionHandle
    \/ PrekeyHandle
    \/ EncTake
    \/ EncSleepOver

RoomSpec == Init /\ [][RoomNext]_vars

\* ------------------------------------------------------- the room beside the engine
MaxHandlerQueues == 1
MaxHandlerRemote == 2
MaxHandlerBatch == 2

HandlerSubscribe == Len(consumer) < MaxHandlerQueues /\ Subscribe
HandlerSync == batch < MaxHandlerBatch /\ SyncResponse
HandlerRemote == used.remote < MaxHandlerRemote /\ RemoteEvent

\* the process ends, at any point, and is started again over the same save
\* directory: the room and the session as in Restart, and a new EventManager
ProcessRestart ==
    /\ used.restarts < MaxRestarts
    /\ room' = RoomInit(disk)
    /\ olm_sessions' = SessionInit(disk)
    /\ op' = NoOp
    /\ inbox' = NoInbox
    /\ enc_handler' = Waiting
    /\ used' = [used EXCEPT !.restarts = @ + 1]
    /\ subscriber_list' = [k \in Kinds |-> <<>>]
    /\ filter' = EventFilter
    /\ since_token' = 0
    /\ tasks' = <<>>
    /\ sync_task' = 0
    /\ rec_task' = 0
    /\ ready' = <<>>
    /\ getters' = <<>>
    /\ general_queue' = <<>>
    /\ delivered' = [q \in 1..MaxQueues |-> <<>>]
    /\ handled' = [q \in 1..MaxQueues |-> 0]
    /\ consumer' = <<>>
    /\ generator' = <<>>
    /\ UNCHANGED <<disk, server, batch, serial, call, account>>

\* the engine serving a subscriber while the room's handlers and activate_encryption
\* run beside it
HandlerNext ==
    \/ HandlerSubscribe
    \/ HandlerSync
    \/ SyncStep
    \/ RecStep
    \/ HandlerRemote
    \/ EncryptionHandle
    \/ PrekeyHandle
    \/ ActivateStart
    \/ BootstrapDevice
    \/ ProcessRestart

HandlerSpec == Init /\ [][HandlerNext]_vars

\* ------------------------------------------------------- the dispatch of every kind
\* the room ids the generators subscribe a kind with: Session.get_invite and
\* get_otk_count pass none, Room.get_prekey_message passes its room like the
\* generators of the room-scoped kinds
SubscribedWith(event) == IF event \in {"invite", "otk"} THEN {None} ELSE Rooms

\* the tuples get_filtered_event can put on general_queue for the event numbered id,
\* one shape per kind
DispatchTuples(id) ==
    {TimelineTuples(e.room, e.ev)[1] :
        e \in {x \in ServerEvents(id) : x.sec = "timeline"}}
    \cup
    {TimelineTuples(r, [type |-> "m.room.encryption", sender |-> s,
                        content |-> [algorithm |-> SupportedVersion]])[1] :
        r \in Rooms, s \in Senders}
    \cup
    {EphemeralTuples(e.room, e.ev)[1] :
        e \in {x \in ServerEvents(id) : x.sec = "ephemeral" /\ x.ev.content.user_ids # <<>>}}
    \cup
    {InviteTuples(e.room, e.ev)[1] :
        e \in {x \in ServerEvents(id) : x.sec = "invite"}}
    \cup
    {ToDeviceTuples(PrekeyEvent(s, RemoteDevice, 0, r,
                                OutboundGroupSession(RemoteSessionId)))[1] :
        r \in Rooms, s \in Senders}
    \cup
    {<<"otk", id>>}

\* a generator of any kind creates its queue and subscribes it
DispatchSubscribe ==
    \E event \in Kinds : \E room_id \in SubscribedWith(event) :
        /\ Len(consumer) < MaxQueues
        /\ consumer' = Append(consumer, [event |-> event, room_id |-> room_id])
        /\ generator' = Append(generator, "waiting")
        /\ add_subscriber(event, Len(consumer) + 1, room_id)
        /\ UNCHANGED <<since_token, handled, batch, serial, call, account, enc_vars>>

\* the body of the loop of __wait_general_event for one event taken from
\* general_queue
DispatchEvent ==
    \E event \in DispatchTuples(serial + 1) :
        /\ serial < MaxEvents
        /\ serial' = serial + 1
        /\ delivered' = dispatch(subscriber_list, delivered, event)
        /\ call' = [NoCall EXCEPT !.op = "dispatch", !.prev = call.op, !.events = <<event>>]
        /\ UNCHANGED <<subscriber_list, filter, since_token, tasks, sync_task, rec_task,
                       ready, getters, general_queue, handled, consumer, generator,
                       account, batch, enc_vars>>

DispatchNext ==
    \/ DispatchSubscribe
    \/ DispatchEvent

DispatchSpec == Init /\ [][DispatchNext]_vars

\* ------------------------------------------------------- polls answered without a section
\* the top-level sections a home-server leaves out of a response when they are empty
AbsentSections == {"to_device", "device_one_time_keys_count"}

\* the home-server answers the sync request in flight and leaves out an empty section
SyncResponseLacking ==
    \E t \in DOMAIN tasks : \E evs \in EventLists(serial + 1, MaxRespEvents) :
    \E field \in AbsentSections :
        /\ InFlight(tasks[t])
        /\ batch < MaxBatch
        /\ serial + Len(evs) <= MaxEvents
        /\ batch' = batch + 1
        /\ serial' = serial + Len(evs)
        /\ tasks' = [tasks EXCEPT ![t].fut_done = TRUE,
                                  ![t].resp = Lacking(SyncJson(batch + 1, evs), field)]
        /\ ready' = Append(ready, t)
        /\ UNCHANGED <<subscriber_list, filter, since_token, sync_task, rec_task, getters,
                       general_queue, delivered, handled, consumer, other_vars>>

PollNext ==
    \/ Subscribe
    \/ Unsubscribe
    \/ SyncResponse
    \/ SyncResponseLacking
    \/ SyncStep
    \/ RecStep

PollSpec == Init /\ [][PollNext]_vars

\* ------------------------------------------------------- the cancelled generators
\* generators subscribe and are cancelled, any number of times each, while the
\* engine's tasks run
CancelNext ==
    \/ Subscribe
    \/ Unsubscribe
    \/ CancelUnsubscribed
    \/ SyncStep
    \/ RecStep

CancelSpec == Init /\ [][CancelNext]_vars

\* ------------------------------------------------------- the device identity
account_rest == <<subscriber_list, filter, since_token, tasks, sync_task, rec_task, ready,
                  getters, general_queue, delivered, handled, consumer, generator, batch,
                  serial, call, enc_vars>>

\* Session.connect up to the first await of __create_or_load_olm_account: a pickled
\* account is loaded, otherwise a new account is created and its device keys are
\* about to be uploaded
Connect ==
    /\ account.pc \in {"idle", "connected", "failed"}
    /\ account.connects < MaxConnects
    /\ account.file.exists \/ account.created < MaxAccounts
    /\ account' =
          IF account.file.exists
          THEN [account EXCEPT !.pc = "connected", !.connects = @ + 1,
                               !.olm_account = AccountFromPickle(account.file, Password)]
          ELSE [account EXCEPT !.pc = "device_keys", !.connects = @ + 1,
                               !.created = @ + 1, !.acc = account.created + 1]
    /\ UNCHANGED account_rest

\* api.device_keys_upload returns, or raises AiomatrixError for a response that is
\* not 200, which leaves connect
DeviceKeysUpload ==
    \E ok \in BOOLEAN :
        /\ account.pc = "device_keys"
        /\ account' =
              IF ok
              THEN [account EXCEPT !.pc = "otk", !.device_keys = Append(@, account.acc)]
              ELSE [account EXCEPT !.pc = "failed", !.acc = 0]
        /\ UNCHANGED account_rest

\* api.otk_upload returns and the account is pickled and kept, or it raises
OtkUpload ==
    \E ok \in BOOLEAN :
        /\ account.pc = "otk"
        /\ account' =
              IF ok
              THEN [account EXCEPT !.pc = "connected", !.acc = 0,
                                   !.otk_uploads = Append(@, MaxOneTimeKeys \div 2),
                                   !.file = AccountPickle(account.acc, Password),
                                   !.olm_account = account.acc]
              ELSE [account EXCEPT !.pc = "failed", !.acc = 0]
        /\ UNCHANGED account_rest

\* the session is left, through __aexit__ or not, and the process is started again
\* over the same save directory
AccountRestart ==
    \E exited \in BOOLEAN :
        /\ account.pc # "idle"
        /\ account' =
              [account EXCEPT !.pc = "idle", !.acc = 0, !.olm_account = 0,
                              !.file = IF exited /\ account.olm_account # 0
                                       THEN AccountPickle(account.olm_account, Password)
                                       ELSE @]
        /\ UNCHANGED account_rest

\* ------------------------------------------------------- the one-time key count
\* number of consumers of Session.get_otk_count
MaxOtkQueues == 1
\* number of counts the home-server reports
MaxOtkEvents == 2

\* the counts of signed_curve25519 keys the home-server can report
OtkCounts == {0, MaxOneTimeKeys \div 2}

\* Session.get_otk_count creates its queue and subscribes it
OtkSubscribe ==
    /\ Len(consumer) < MaxOtkQueues
    /\ consumer' = Append(consumer, [event |-> "otk", room_id |-> None])
    /\ generator' = Append(generator, "waiting")
    /\ add_subscriber("otk", Len(consumer) + 1, None)
    /\ UNCHANGED <<since_token, handled, batch, serial, call, account, enc_vars>>

\* a response reports the count of one-time keys left and __wait_general_event
\* hands the otk event to the subscribers
OtkEvent ==
    \E count \in OtkCounts :
        /\ serial < MaxOtkEvents
        /\ serial' = serial + 1
        /\ delivered' = dispatch(subscriber_list, delivered, <<"otk", count>>)
        /\ UNCHANGED <<subscriber_list, filter, since_token, tasks, sync_task, rec_task,
                       ready, getters, general_queue, handled, consumer, generator,
                       account, batch, call, enc_vars>>

\* the generator takes a count from its queue and yields it to its consumer
OtkYield ==
    \E q \in DOMAIN consumer :
        /\ consumer[q].event = "otk"
        /\ generator[q] = "waiting"
        /\ handled[q] < Len(delivered[q])
        /\ handled' = [handled EXCEPT ![q] = @ + 1]
        /\ UNCHANGED <<subscriber_list, filter, since_token, tasks, sync_task, rec_task,
                       ready, getters, general_queue, delivered, consumer, generator,
                       account, batch, serial, call, enc_vars>>

AccountNext ==
    \/ Connect
    \/ DeviceKeysUpload
    \/ OtkUpload
    \/ AccountRestart
    \/ OtkSubscribe
    \/ OtkEvent
    \/ OtkYield

AccountSpec == Init /\ [][AccountNext]_vars

\* the steps of the library's own coroutines are taken once they can be: a request
\* in flight completes and the event loop resumes the generator whose queue holds an
\* item. Nothing obliges the application to connect, restart or subscribe again
AccountLive ==
    /\ AccountSpec
    /\ WF_vars(DeviceKeysUpload)
    /\ WF_vars(OtkUpload)
    /\ WF_vars(OtkYield)


\* ------------------------------------------------------- reading a behaviour
\* the event loop step taken from this state is the step of task t
StepOf(t) ==
    /\ ready # <<>>
    /\ t = Head(ready)
    /\ tasks'[t].pc # tasks[t].pc \/ (tasks[t].fut_done /\ ~tasks'[t].fut_done)

\* task t reads a successful response in the step taken from this state
ReadsResponse(t, pc) ==
    /\ StepOf(t)
    /\ tasks[t].type = "sync"
    /\ tasks[t].pc = pc
    /\ ~tasks[t].must_cancel
    /\ tasks[t].resp.status = 200

\* what a step appended to general_queue
Enqueued == SubSeq(general_queue', Len(general_queue) + 1, Len(general_queue'))

\* a task that has not ended and has not been asked to end
Live(task) == ~TaskDone(task) /\ ~task.must_cancel

LiveTasks(type) == {t \in DOMAIN tasks : tasks[t].type = type /\ Live(tasks[t])}

\* the kinds of one bucket of the filter
BucketKinds(bucket) ==
    IF bucket = "timeline" THEN {"message", "encryption", "encrypted"} ELSE {"typing"}

\* the types and rooms the subscriber registry implies for one bucket
ImpliedTypes(bucket) ==
    {TypeOfKind(k) : k \in {x \in BucketKinds(bucket) : subscriber_list[x] # <<>>}}

ImpliedRooms(bucket) ==
    UNION {Range(SubscribedRooms(subscriber_list[k])) : k \in BucketKinds(bucket)}

\* ------------------------------------------------------- claims
\* C1: after every sequence of add_subscriber/remove_subscriber calls the built
\* filter names exactly the types and rooms the subscriber registry implies, so
\* subscribing and unsubscribing restores the empty filter.
C1_FilterMatchesRegistry ==
    LET built == get_filter_dict(filter)
    IN /\ Range(built.timeline.types) = ImpliedTypes("timeline")
       /\ Range(built.timeline.rooms) = ImpliedRooms("timeline")
       /\ Range(built.ephemeral.types) = ImpliedTypes("ephemeral")
       /\ Range(built.ephemeral.rooms) = ImpliedRooms("ephemeral")

\* C5: at most one live poll task and at most one live dispatch task exist.
C5_OnePollOneDispatch ==
    /\ Cardinality(LiveTasks("sync")) <= 1
    /\ Cardinality(LiveTasks("rec")) <= 1

\* C7: once a remove_subscriber call has emptied the subscription set, no
\* background task of the engine is live.
C7_IdleWhenEmpty ==
    (\A k \in Kinds : subscriber_list[k] = <<>>) =>
        LiveTasks("sync") \cup LiveTasks("rec") = {}

\* C2: a second subscription for a (kind, room) pair that already has a subscriber
\* leaves the built filter and the tasks alone; the first subscription of a pair
\* restarts the tasks.
C2_SecondSubscriptionNoRestart ==
    [][\A event \in Kinds :
         Len(subscriber_list'[event]) = Len(subscriber_list[event]) + 1 =>
             LET room_id == subscriber_list'[event][Len(subscriber_list'[event])][1]
             IN IF Contains(SubscribedRooms(subscriber_list[event]), room_id)
                THEN /\ get_filter_dict(filter') = get_filter_dict(filter)
                     /\ tasks' = tasks
                     /\ ready' = ready
                     /\ sync_task' = sync_task
                     /\ rec_task' = rec_task
                ELSE /\ Len(tasks') = Len(tasks) + 2
                     /\ sync_task' = Len(tasks')
                     /\ tasks'[sync_task'].pc = "start"
                     /\ sync_task # 0 => ~Live(tasks'[sync_task])]_vars

\* a (kind, room) pair has two subscribers
C2_Witness ==
    \E event \in Kinds : \E i, j \in DOMAIN subscriber_list[event] :
        i < j /\ subscriber_list[event][i][1] = subscriber_list[event][j][1]

\* the message events of one room in a list of events, as put on a subscriber queue
MessagesOf(room_id, events) ==
    LET IsMessage(e) == e[1] = "message" /\ e[2] = room_id
        sel == SelectSeq(events, IsMessage)
    IN [i \in DOMAIN sel |-> <<sel[i][2], sel[i][3], sel[i][4]>>]

\* whether queue is registered for (event, room_id)
Registered(event, room_id, queue) ==
    Contains(subscriber_list[event], <<room_id, queue>>)

\* C3: a message subscriber of room R is handed (room, sender, body) of every
\* timeline m.room.message event of R in a poll response exactly once, and nothing
\* of another room.
C3_MessageDeliveredOnce ==
    /\ [](\A q \in DOMAIN consumer : consumer[q].event = "message" =>
            \A i \in DOMAIN delivered[q] :
                /\ Len(delivered[q][i]) = 3
                /\ delivered[q][i][1] = consumer[q].room_id
                /\ delivered[q][i][3].room = delivered[q][i][1]
                /\ delivered[q][i][3].sender = delivered[q][i][2])
    /\ [][/\ \A t \in DOMAIN tasks : \A room_id \in Rooms :
                (/\ ReadsResponse(t, "poll")
                 /\ Contains(SubscribedRooms(subscriber_list["message"]), room_id)
                 /\ room_id \in DOMAIN tasks[t].resp.rooms.join) =>
                    LET events == tasks[t].resp.rooms.join[room_id].timeline.events
                    IN \A i \in DOMAIN events : events[i].type = "m.room.message" =>
                           Count(Enqueued, <<"message", room_id, events[i].sender,
                                             events[i].content.body>>) = 1
          /\ \A q \in DOMAIN consumer :
                IF /\ \E t \in DOMAIN tasks :
                        StepOf(t) /\ tasks[t].type = "rec" /\ ~tasks[t].must_cancel
                   /\ Registered("message", consumer[q].room_id, q)
                THEN delivered'[q] =
                         delivered[q] \o MessagesOf(consumer[q].room_id, general_queue)
                ELSE consumer[q].event = "message" => delivered'[q] = delivered[q]]_vars

\* two message subscribers of different rooms each hold the one message of their room
C3_Witness ==
    \E q1, q2 \in DOMAIN consumer :
        /\ consumer[q1].event = "message"
        /\ consumer[q2].event = "message"
        /\ consumer[q1].room_id # consumer[q2].room_id
        /\ Len(delivered[q1]) = 1
        /\ Len(delivered[q2]) = 1
        /\ general_queue = <<>>

\* the serial number the home-server gave the event behind an item of a queue
ItemId(event, item) ==
    IF event = "message" THEN item[3].id ELSE item[3].plain.id

Numbered(q) == consumer[q].event \in {"message", "encrypted"}

\* C4 as stated: every subscriber queue receives its events in the order in which
\* they were extracted from the poll responses, a decrypted message counting as
\* the encrypted event it came from.
C4_ExtractionOrderKept ==
    \A q \in DOMAIN consumer : Numbered(q) =>
        \A i, j \in DOMAIN delivered[q] :
            i < j => ItemId(consumer[q].event, delivered[q][i])
                         < ItemId(consumer[q].event, delivered[q][j])

\* the items the events of a list put on one registered queue
RECURSIVE RoutedTo(_, _)
RoutedTo(q, events) ==
    IF events = <<>> THEN <<>>
    ELSE LET e == Head(events)
             kind == RoutedKind(e[1])
             mine == /\ kind = consumer[q].event
                     /\ \E i \in DOMAIN subscriber_list[kind] :
                            /\ subscriber_list[kind][i][2] = q
                            /\ kind \in RoomKinds => subscriber_list[kind][i][1] = e[2]
         IN (IF mine THEN <<SubSeq(e, 2, Len(e))>> ELSE <<>>) \o RoutedTo(q, Tail(events))

IsPrefix(s, t) == Len(s) <= Len(t) /\ SubSeq(t, 1, Len(s)) = s

\* C4 as amended: events leave the internal queue in the order they were put on it
\* and reach every subscriber queue in that order; events are only ever added at
\* the tail of the internal queue, a re-injected decrypted message included.
C4_QueueOrderKept ==
    /\ [](\A q \in DOMAIN consumer : consumer[q].event = "encrypted" =>
            \A i, j \in DOMAIN delivered[q] :
                i < j => ItemId("encrypted", delivered[q][i])
                             < ItemId("encrypted", delivered[q][j]))
    /\ [][IF \E t \in DOMAIN tasks :
                StepOf(t) /\ tasks[t].type = "rec" /\ ~tasks[t].must_cancel
          THEN /\ general_queue' = <<>>
               /\ \A q \in DOMAIN consumer :
                      delivered'[q] = delivered[q] \o RoutedTo(q, general_queue)
          ELSE /\ IsPrefix(general_queue, general_queue')
               /\ delivered' = delivered]_vars

\* a message subscriber holds a decrypted message behind a message that was
\* extracted after the encrypted event
C4_Witness ==
    \E q \in DOMAIN consumer :
        /\ consumer[q].event = "message"
        /\ Len(delivered[q]) = 2
        /\ delivered[q][1][3].id > delivered[q][2][3].id

\* the sync tasks whose request has been issued and not yet torn down
Requesting == {t \in DOMAIN tasks : tasks[t].type = "sync" /\ tasks[t].pc \in {"prime", "poll"}}

\* C6: at no time are two sync requests in flight, every poll task older than the
\* one requesting has ended, and a cancelled poll leaves the since token alone.
C6_OnePollInFlight ==
    /\ [](/\ Cardinality(Requesting) <= 1
          /\ \A t \in Requesting : \A u \in 1..(t - 1) :
                 tasks[u].type = "sync" => TaskDone(tasks[u]))
    /\ [][\A t \in DOMAIN tasks :
              (StepOf(t) /\ tasks[t].must_cancel) =>
                  since_token' = since_token /\ general_queue' = general_queue]_vars

\* a restart has cancelled a poll whose response had already arrived, and the new
\* poll task has not run yet
C6_Witness ==
    \E t, u \in DOMAIN tasks :
        /\ t < u
        /\ tasks[t].type = "sync" /\ tasks[t].pc = "poll"
        /\ tasks[t].fut_done /\ tasks[t].must_cancel
        /\ tasks[u].type = "sync" /\ tasks[u].pc = "start"

\* C8: a poll task primes only while the since token is unset, the priming request
\* carries no filter, its response enqueues and delivers nothing and only sets the
\* since token, and the filtered poll loop runs only with the token set.
C8_PrimingOnlyStoresToken ==
    /\ [](\A t \in DOMAIN tasks :
            /\ tasks[t].pc = "prime" => since_token = 0 /\ ~tasks[t].req.filtered
            /\ tasks[t].pc = "poll" => since_token # 0 /\ tasks[t].req.filtered)
    /\ [][\A t \in DOMAIN tasks :
              ReadsResponse(t, "prime") =>
                  /\ general_queue' = general_queue
                  /\ delivered' = delivered
                  /\ since_token' = tasks[t].resp.next_batch
                  /\ tasks'[t].pc = "poll"]_vars

\* the priming response reported an event and nothing was enqueued or delivered
C8_Witness ==
    /\ batch = 1
    /\ serial = 1
    /\ since_token = 1
    /\ general_queue = <<>>
    /\ \A q \in DOMAIN delivered : delivered[q] = <<>>
    /\ \E t \in DOMAIN tasks : tasks[t].pc = "poll"

\* C9: the since token is set to next_batch by every successful response a poll
\* task reads, also an empty one, changes at no other step, and once set is never
\* unset.
C9_SinceTokenAdvances ==
    [][/\ since_token # 0 => since_token' # 0
       /\ \A t \in DOMAIN tasks :
              (ReadsResponse(t, "prime") \/ ReadsResponse(t, "poll")) =>
                  since_token' = tasks[t].resp.next_batch /\ since_token' # since_token
       /\ since_token' # since_token =>
              \E t \in DOMAIN tasks : ReadsResponse(t, "prime") \/ ReadsResponse(t, "poll")]_vars

\* two responses without any event were read, and the engine is idle with the
\* token kept
C9_Witness ==
    /\ since_token = 2
    /\ serial = 0
    /\ \A k \in Kinds : subscriber_list[k] = <<>>

\* the bucket of the filter a room-scoped kind belongs to
BucketOf(f, kind) == IF kind = "typing" THEN f.ephemeral ELSE f.timeline

\* C10 as stated: every room-scoped event get_filtered_event emits has its type and
\* its room in the filter the poll was issued with.
C10_OnlyFilteredKinds ==
    [][\A t \in DOMAIN tasks : ReadsResponse(t, "poll") =>
           \A i \in DOMAIN Enqueued :
               RoutedKind(Enqueued[i][1]) \in RoomKinds =>
                   /\ Contains(BucketOf(tasks[t].req.filter, Enqueued[i][1]).types,
                               TypeOfKind(Enqueued[i][1]))
                   /\ Contains(BucketOf(tasks[t].req.filter, Enqueued[i][1]).rooms,
                               Enqueued[i][2])]_vars

\* C10 as amended: every room-scoped event get_filtered_event emits is of a room in
\* the room list of its bucket of the filter the poll was issued with.
C10_OnlyFilteredRooms ==
    [][\A t \in DOMAIN tasks : ReadsResponse(t, "poll") =>
           \A i \in DOMAIN Enqueued :
               RoutedKind(Enqueued[i][1]) \in RoomKinds =>
                   Contains(BucketOf(tasks[t].req.filter, Enqueued[i][1]).rooms,
                            Enqueued[i][2])]_vars

\* an encrypted event of a subscribed room was emitted although only message
\* events are subscribed
C10_Witness ==
    /\ subscriber_list["encrypted"] = <<>>
    /\ subscriber_list["message"] # <<>>
    /\ \E i \in DOMAIN general_queue :
           /\ general_queue[i][1] = "encrypted"
           /\ Contains(SubscribedRooms(subscriber_list["message"]), general_queue[i][2])

\* the ephemeral events a response reports for a room
EphemeralOf(resp_json, room_id) ==
    IF room_id \in DOMAIN resp_json.rooms.join
    THEN resp_json.rooms.join[room_id].ephemeral.events ELSE <<>>

\* C11: a typing event whose user-id list is empty or absent yields no event, and
\* every typing event with a non-empty list in a typing-subscribed room yields exactly
\* one typing event carrying that room and that list.
C11_TypingExtraction ==
    call.op = "extract" =>
        \A r \in Rooms :
            LET IsTyping(e) == e[1] = "typing" /\ e[2] = r
                Typists(ev) == "user_ids" \in DOMAIN ev.content /\ ev.content.user_ids # <<>>
                typing == SelectSeq(call.events, IsTyping)
                named == SelectSeq(EphemeralOf(call.resp_json, r), Typists)
            IN IF Contains(call.before.ephemeral_rooms, <<"typing", r>>)
               THEN typing = [i \in DOMAIN named |-> <<"typing", r, named[i].content.user_ids>>]
               ELSE typing = <<>>

\* a room with two typing subscriptions was reported one typing event with a
\* non-empty list, and one typing event was extracted
C11_Witness ==
    /\ call.op = "extract"
    /\ Count(call.before.ephemeral_rooms, <<"typing", "r1">>) = 2
    /\ Len(EphemeralOf(call.resp_json, "r1")) = 1
    /\ call.events = << <<"typing", "r1", <<"@a:hs">> >> >>

NoDuplicates(s) == \A i, j \in DOMAIN s : i # j => s[i] # s[j]

\* the room ids named by a list of (event, room_id) entries
RoomIds(rooms) == {rooms[i][2] : i \in DOMAIN rooms}

Present(f, event, room_id) ==
    \/ Contains(f.timeline_rooms, <<event, room_id>>)
    \/ Contains(f.ephemeral_rooms, <<event, room_id>>)

\* C13 as stated: remove_filter of a pair the filter does not hold raises, for every
\* kind, and leaves the filter unchanged.
C13_ClearAbsentRaises ==
    [][(call'.op = "remove" /\ ~Present(filter, call'.event, call'.room_id)) =>
           call'.raised /\ filter' = filter]_vars

\* C13 as amended: remove_filter of a pair the filter does not hold raises for the
\* room-scoped kinds and leaves the filter unchanged; for the global kinds, which
\* the filter never holds, it does nothing and does not raise.
C13_ClearAbsentRoomKindRaises ==
    [][(call'.op = "remove" /\ ~Present(filter, call'.event, call'.room_id)) =>
           /\ filter' = filter
           /\ call'.raised <=> call'.event \in RoomKinds]_vars

\* a pair was removed from a filter that holds other pairs but not this one
C13_Witness ==
    /\ call.op = "remove"
    /\ call.raised
    /\ call.event \in RoomKinds
    /\ ~Present(call.before, call.event, call.room_id)
    /\ call.before.timeline_rooms # <<>>
    /\ call.before.ephemeral_rooms # <<>>
    /\ filter = call.before

\* ------------------------------------------------------- claims on the bootstrap
\* the step is the bootstrap of the device the loop of activate_encryption is at
BootstrapStep ==
    /\ op.pc = "bootstrap"
    /\ op' # op
    /\ used'.restarts = used.restarts

\* the device the loop of activate_encryption is at, and what the server holds for it
Partner == OtherDevices(server.members)[op.idx]
PartnerKeys == server.keys[Partner[2]]

\* the bootstrap left no trace of a pairwise session and sent nothing to any device
NoSessionMade ==
    /\ olm_sessions' = olm_sessions
    /\ disk'.olmSessions = disk.olmSessions
    /\ server'.to_device = server.to_device

\* C14: when the signature of the partner device's identity keys or of its one-time
\* key does not verify, the bootstrap of that device fails, no pairwise session is
\* stored in olm_sessions or saved to olmSessions, and no prekey or room-key message
\* is sent.
C14_UnverifiedKeysAbort ==
    [][(BootstrapStep /\ (PartnerKeys.identity = "tampered" \/ PartnerKeys.otk = "tampered")) =>
           /\ op'.pc = "idle"
           /\ op'.result = "raised"
           /\ NoSessionMade]_vars

\* the second device failed verification after the first one got its session
C14_Witness ==
    /\ op.pc = "idle"
    /\ op.result = "raised"
    /\ op.error = "verification"
    /\ op.idx = 2
    /\ <<PeerDevices[1][1], DeviceKey(PeerDevices[1][2])>> \in DOMAIN olm_sessions
    /\ <<PeerDevices[2][1], DeviceKey(PeerDevices[2][2])>> \notin DOMAIN olm_sessions

\* C15: when the server has no one-time key for the partner device, the bootstrap
\* fails with the error raised to the caller of activate_encryption, and no pairwise
\* session is stored or saved for that device.
C15_NoOtkRaises ==
    [][(BootstrapStep /\ PartnerKeys.identity = "valid" /\ PartnerKeys.otk = "none") =>
           /\ op'.pc = "idle"
           /\ op'.result = "raised"
           /\ op'.error = "no_otk"
           /\ NoSessionMade]_vars

\* activate_encryption ended with the error of a device without a one-time key
C15_Witness ==
    /\ op.name = "activate_encryption"
    /\ op.pc = "idle"
    /\ op.result = "raised"
    /\ op.error = "no_otk"
    /\ olm_sessions = <<>>
    /\ ~disk.olmSessions.exists

\* C16 as stated: when a call of activate_encryption has ended with the error of a
\* device without a one-time key, every device with verified keys and a one-time key
\* has its pairwise session and the room key.
C16_OtherDevicesBootstrapped ==
    (op.pc = "idle" /\ op.result = "raised" /\ op.error = "no_otk") =>
        \A i \in DOMAIN OtherDevices(server.members) :
            LET user_id == OtherDevices(server.members)[i][1]
                device_id == OtherDevices(server.members)[i][2]
            IN (server.keys[device_id].identity = "valid" /\ server.keys[device_id].otk = "valid") =>
                   /\ <<user_id, DeviceKey(device_id)>> \in DOMAIN olm_sessions
                   /\ \E k \in DOMAIN server.to_device :
                        /\ server.to_device[k].device_id = device_id
                        /\ server.to_device[k].type = 1

\* ------------------------------------------------------- claims on received messages
\* the step ends the sleep of wait_enc_message
SleepOverStep ==
    /\ enc_handler.pc = "sleeping"
    /\ enc_handler' # enc_handler
    /\ used'.restarts = used.restarts

\* the room holds a session under the (sender, device, session id) of the message
\* wait_enc_message sleeps over
KeyHeld ==
    <<Py(enc_handler.message, 1), Py(enc_handler.message, 3), Py(enc_handler.message, 4)>>
        \in DOMAIN room.room_keys

\* C17: an encrypted message that arrives before its room key makes the handler wait
\* once; if the room key was handled during the wait, the message is decrypted and put
\* back into the general queue as a message event; if not, the lookup has been made
\* exactly twice, the message is dropped, nothing is put back, and the handler and the
\* other queues go on undisturbed.
C17_RetryOnceThenDrop ==
    [][SleepOverStep =>
           /\ enc_handler'.pc = "waiting"
           /\ enc_handler'.last.lookups = 2
           /\ inbox' = inbox
           /\ delivered' = delivered
           /\ KeyHeld =>
                general_queue' = Append(general_queue,
                    <<"message", RoomId, RemoteUser, Plaintexts[3]>>)
           /\ ~KeyHeld =>
                /\ enc_handler'.last.outcome = "dropped"
                /\ general_queue' = general_queue
                /\ room' = room
                /\ room.encrypted_task = "running"]_vars

\* of two messages that came before the room key, the first was dropped after the
\* wait and the second decrypted on the second lookup
C17_Witness ==
    /\ enc_handler.last.outcome = "decrypted"
    /\ enc_handler.last.lookups = 2
    /\ used.remote_index = 2
    /\ inbox.encrypted = <<>>
    /\ general_queue = << <<"message", RoomId, RemoteUser, Plaintexts[3]>> >>

\* the step is wait_enc_message taking the next message of its queue
TakeStep ==
    /\ inbox.encrypted # <<>>
    /\ inbox'.encrypted = Tail(inbox.encrypted)
    /\ used'.restarts = used.restarts

OwnEncrypted ==
    {i \in DOMAIN server.events :
        server.events[i].type = "m.room.encrypted" /\ server.events[i].sender = OwnUser}

\* C19 as stated: once an encrypted send_message has returned, the outbound session
\* a reload would find on disk is the one in memory, and no two messages this device
\* sent were encrypted at the same ratchet index of the same session, restarts
\* included.
C19_RatchetPersisted ==
    /\ (op.name = "send_message" /\ op.pc = "idle" /\ op.result = "ok"
            /\ room.meg_ses # NoSession) =>
           RoomInit(disk).meg_ses = room.meg_ses
    /\ \A i, j \in OwnEncrypted :
           i # j => server.events[i].content.ciphertext.index
                        # server.events[j].content.ciphertext.index
                    \/ server.events[i].content.session_id
                        # server.events[j].content.session_id

\* C20 as stated: no step takes is_encrypted of the room from true back to false.
C20_EncryptedStays ==
    [][room.is_encrypted => room'.is_encrypted]_vars

\* ------------------------------------------------------- claims on the filter's types
\* the entries a filter holds for a kind, and the types of the bucket of the kind
EntriesOf(f, event) ==
    {i \in DOMAIN f.timeline_rooms : f.timeline_rooms[i][1] = event}
        \cup {Len(f.timeline_rooms) + i : i \in
                {j \in DOMAIN f.ephemeral_rooms : f.ephemeral_rooms[j][1] = event}}
TypesFor(f, event) ==
    IF event = "typing" THEN f.ephemeral_types ELSE f.timeline_types

\* C25 as stated: remove_filter of the only entry a room-scoped kind has left takes
\* the kind's type out of the filter and raises no error.
C25_LastRoomRemovesType ==
    [][(/\ call'.op = "remove"
        /\ call'.event \in RoomKinds
        /\ Present(filter, call'.event, call'.room_id)
        /\ Cardinality(EntriesOf(filter, call'.event)) = 1) =>
           /\ ~call'.raised
           /\ ~Contains(TypesFor(filter', call'.event), TypeOfKind(call'.event))]_vars

\* ------------------------------------------------------- claims on incomplete responses
\* the response of the last call lacks a section or field
LacksSection(resp_json) ==
    \/ {"rooms", "to_device", "device_one_time_keys_count"} \ DOMAIN resp_json # {}
    \/ {"join", "invite"} \ DOMAIN resp_json.rooms # {}
    \/ \E r \in DOMAIN resp_json.rooms.join :
         {"timeline", "ephemeral"} \ DOMAIN resp_json.rooms.join[r] # {}

\* C26 as stated: get_filtered_event of a response that lacks a section or field
\* raises no error.
C26_AbsentSectionNoError ==
    (call.op = "extract" /\ LacksSection(call.resp_json)) => ~call.raised

\* ------------------------------------------------------- claims on the prekey handler
\* the step is wait_olm_megolm_prekey taking the next message of its queue
PrekeyStep ==
    /\ inbox.prekey # <<>>
    /\ inbox'.prekey = Tail(inbox.prekey)
    /\ used'.restarts = used.restarts

\* the message the prekey handler takes next continues a pairwise session that
\* olm_sessions does not hold
UnknownContinuation ==
    LET message == Head(inbox.prekey).message
    IN /\ Py(message, 2).ciphertext.type # 0
       /\ <<Py(message, 1), Py(message, 2).sender_key>> \notin DOMAIN olm_sessions

\* C30: a continuation message from a (sender, sender device key) without a stored
\* pairwise session ends the prekey handler with an error: no inbound group session
\* is stored, and olm_sessions, room_keys and the saved files stay as they are.
C30_UnknownContinuationFatal ==
    [][(PrekeyStep /\ UnknownContinuation) =>
           /\ room'.prekey_task = "failed"
           /\ olm_sessions' = olm_sessions
           /\ room'.room_keys = room.room_keys
           /\ disk' = disk]_vars

\* the prekey handler ended on a continuation message it had no session for, the
\* message that would have set the session up having been lost with a restart
C30_Witness ==
    /\ room.prekey_task = "failed"
    /\ used.restarts = 1
    /\ olm_sessions = <<>>
    /\ room.room_keys = <<>>

\* ------------------------------------------------------- claims on activation
\* the last call was activate_encryption and it returned without an error
ActivationReturned ==
    /\ op.name = "activate_encryption"
    /\ op.pc = "idle"
    /\ op.result = "ok"

\* C27 as stated: once activate_encryption has returned successfully, whatever the
\* membership of the room (the own user alone included), the room is marked
\* encrypted, so that the next send_message transmits ciphertext.
C27_ActivationMarksEncrypted ==
    ActivationReturned => room.is_encrypted

\* the step is the beginning of a call of activate_encryption, from the caller or
\* from send_message
ActivationBegins == used'.sessions = used.sessions + 1

\* the events of type m.room.encryption among the room's events
ActivationEvents(events) == SelectSeq(events, LAMBDA e : e.type = "m.room.encryption")

\* the device was sent the key of the outbound group session the room now holds
SentRoomKey(user_id, device_id) ==
    \E k \in DOMAIN server.to_device :
        /\ server.to_device[k].receiver = user_id
        /\ server.to_device[k].device_id = device_id
        /\ server.to_device[k].type = 1
        /\ server.to_device[k].body.content.session_id = room.meg_ses.id
        /\ server.to_device[k].body.content.session_key = SessionKey(room.meg_ses)

\* every device of every other member has its pairwise session and the room key,
\* and no device of the own user was sent anything
AllBootstrapped ==
    /\ \A i \in DOMAIN server.members :
          server.members[i][1] # OwnUser =>
              /\ <<server.members[i][1], DeviceKey(server.members[i][2])>> \in DOMAIN olm_sessions
              /\ SentRoomKey(server.members[i][1], server.members[i][2])
    /\ \A k \in DOMAIN server.to_device : server.to_device[k].receiver # OwnUser

\* C28: activate_encryption sends the activation event exactly when the room is not
\* yet marked encrypted; when it has returned successfully, every device of every
\* other member has a pairwise session and was sent the key of the current outbound
\* group session, and the own user's devices were sent nothing.
C28_ActivationBootstrapsAll ==
    [][/\ ActivationBegins =>
            (Len(ActivationEvents(server'.events)) =
                Len(ActivationEvents(server.events)) + (IF room.is_encrypted THEN 0 ELSE 1))
       /\ (ActivationReturned => AllBootstrapped)']_vars

\* activate_encryption returned in a room with two devices of another member, each
\* of which got the prekey message and the room key
C28_Witness ==
    /\ ActivationReturned
    /\ OtherDevices(server.members) = PeerDevices
    /\ Len(server.to_device) = 2 * Len(PeerDevices)
    /\ Len(ActivationEvents(server.events)) = 1

\* ------------------------------------------------------- claims on sending
\* the events of the room the step adds
NewEvents == SubSeq(server'.events, Len(server.events) + 1, Len(server'.events))

\* the step sends the text of a message in the clear
SendsPlaintext ==
    \E i \in DOMAIN NewEvents : NewEvents[i].type = "m.room.message"

\* the step sends an encrypted message of the room's outbound session as it was
\* before the step
SendsCiphertext ==
    /\ Len(NewEvents) = 1
    /\ NewEvents[1].type = "m.room.encrypted"
    /\ room.meg_ses # NoSession
    /\ NewEvents[1].content.session_id = room.meg_ses.id
    /\ NewEvents[1].content.ciphertext =
           megolm_encrypt(room.meg_ses, MessagePayload(RoomId, op.message)).ciphertext

\* the step is a step of a call of send_message that began in an encrypted room
EncryptedSendStep ==
    /\ op' # op
    /\ \/ op.pc = "idle" /\ op'.name = "send_message" /\ room.is_encrypted
       \/ op.pc # "idle" /\ op.name = "send_message"

UnsupportedActivationStep ==
    /\ room.encryption_task = "running"
    /\ inbox.encryption # <<>>
    /\ inbox'.encryption = Tail(inbox.encryption)
    /\ Py(Head(inbox.encryption).message, 2) # SupportedVersion

\* C21 as stated: an activation event with an unsupported algorithm does not mark
\* the room encrypted and ends its handler with the error, and from then on the
\* room sends no message content as plaintext.
C21_UnsupportedFailsClosed ==
    [][/\ UnsupportedActivationStep =>
            /\ room'.is_encrypted = room.is_encrypted
            /\ room'.encryption_task = "failed"
       /\ room.encryption_task = "failed" => ~SendsPlaintext]_vars

\* ------------------------------------------------------- claims on subscriptions
\* whether the queue of a generator is in the subscriber list of its kind
Subscribed(q) == Registered(consumer[q].event, consumer[q].room_id, q)

\* the step is a remove_subscriber: one entry less in the list of some kind
RemoveStep ==
    \E event \in Kinds : Len(subscriber_list'[event]) = Len(subscriber_list[event]) - 1

\* C23: a queue that remove_subscriber has taken out of the subscriber list is put
\* no event on by any later step, and the remove_subscriber step itself leaves the
\* content of every queue as it was and the entries of the other subscribers in
\* their lists in their order.
C23_RemovedQueueGetsNothing ==
    [][/\ \A q \in DOMAIN consumer : ~Subscribed(q) => delivered'[q] = delivered[q]
       /\ RemoveStep =>
            /\ delivered' = delivered
            /\ \E q \in DOMAIN consumer :
                  /\ Subscribed(q)
                  /\ ~Subscribed(q)'
                  /\ \A event \in Kinds :
                        subscriber_list'[event] =
                            SelectSeq(subscriber_list[event], LAMBDA entry : entry[2] # q)]_vars

\* of two subscribers of the same kind and room, the one that unsubscribed holds
\* the first event only and the other one both
C23_Witness ==
    \E q, p \in DOMAIN consumer :
        /\ q # p
        /\ consumer[q] = consumer[p]
        /\ ~Subscribed(q)
        /\ Subscribed(p)
        /\ Len(delivered[q]) = 1
        /\ Len(delivered[p]) = 2
        /\ delivered[p][1] = delivered[q][1]

\* ------------------------------------------------------- claims on the dispatch
\* whether the queue is subscribed to the kind of the event and, for a room-scoped
\* kind, with the room of the event
Addressed(q, event) ==
    \E i \in DOMAIN subscriber_list[event[1]] :
        /\ subscriber_list[event[1]][i][2] = q
        /\ event[1] \in RoomKinds => subscriber_list[event[1]][i][1] = event[2]

\* C24: the dispatch of one event puts one item on the queue of every subscriber of
\* the event's kind whose room is the event's room, for message, encryption,
\* encrypted and typing events, and of every subscriber of the kind whatever room it
\* subscribed with, for invite, prekey and otk events; no other queue changes.
C24_DispatchByKindAndRoom ==
    [][(call'.op = "dispatch" /\ serial' = serial + 1) =>
           \A q \in DOMAIN delivered :
               IF Addressed(q, call'.events[1])
               THEN /\ Len(delivered'[q]) = Len(delivered[q]) + 1
                    /\ SubSeq(delivered'[q], 1, Len(delivered[q])) = delivered[q]
               ELSE delivered'[q] = delivered[q]]_vars

\* two prekey subscribers of different rooms both got the one prekey event
C24_Witness ==
    /\ call.op = "dispatch"
    /\ serial = 1
    /\ Len(consumer) = 2
    /\ consumer[1] = [event |-> "prekey", room_id |-> "r1"]
    /\ consumer[2] = [event |-> "prekey", room_id |-> "r2"]
    /\ Len(delivered[1]) = 1
    /\ Len(delivered[2]) = 1

\* ------------------------------------------------------- claims on errors and the engine
\* the step ends a handler of the room, or a bootstrap, with an error
HandlerFails ==
    \/ room.encryption_task = "running" /\ room'.encryption_task = "failed"
    \/ room.prekey_task = "running" /\ room'.prekey_task = "failed"
    \/ op.pc = "bootstrap" /\ op'.pc = "idle" /\ op'.result = "raised"

\* an operation of the room has ended with an error in this run of the process
HasFailed ==
    \/ room.encryption_task = "failed"
    \/ room.prekey_task = "failed"
    \/ op.result = "raised"

engine_vars == <<subscriber_list, filter, since_token, tasks, sync_task, rec_task, ready,
                 getters, general_queue, delivered, handled, consumer, batch, serial>>

\* the events of general_queue the dispatch loop owes to queue q
Owed(q) == {i \in DOMAIN general_queue : Addressed(q, general_queue[i])}

\* C22: the step at which a handler of the room or a bootstrap ends with an error
\* changes nothing of the engine; and with such an error behind, a poll task that
\* reads a response still stores the token and issues the next poll, and a dispatch
\* task still empties general_queue and hands every subscriber its events.
C22_ErrorLeavesEngineRunning ==
    [][/\ HandlerFails => UNCHANGED engine_vars
       /\ (HasFailed /\ Len(tasks') >= Len(tasks)) =>
            \A t \in DOMAIN tasks :
                /\ ReadsResponse(t, "poll") =>
                      /\ since_token' = tasks[t].resp.next_batch
                      /\ tasks'[t].pc = "poll"
                      /\ Live(tasks'[t])
                /\ (StepOf(t) /\ tasks[t].type = "rec" /\ ~tasks[t].must_cancel) =>
                      /\ general_queue' = <<>>
                      /\ Live(tasks'[t])
                      /\ \A q \in DOMAIN delivered :
                            Len(delivered'[q]) = Len(delivered[q]) + Cardinality(Owed(q))]_vars

\* wait_room_encryption has ended with its error, and the subscriber holds an event
\* of the poll response that followed the priming one
C22_Witness ==
    /\ room.encryption_task = "failed"
    /\ used.restarts = 0
    /\ batch = 2
    /\ \E q \in DOMAIN consumer : Len(delivered[q]) = 1
    /\ \E t \in DOMAIN tasks : InFlight(tasks[t])

\* the message the prekey handler takes next announces a group session of another
\* room than the handler's
CrossRoomAnnouncement ==
    json_loads(Py(Head(inbox.prekey).message, 2).ciphertext.body).content.room_id # RoomId

\* C31 as stated: an announcement for another room is ignored without error: the
\* room gets no inbound group session from it and its prekey handler keeps running,
\* so that a later announcement for this room is still taken.
C31_CrossRoomIgnored ==
    [][(PrekeyStep /\ CrossRoomAnnouncement /\ ~UnknownContinuation) =>
           /\ room'.room_keys = room.room_keys
           /\ room'.prekey_task = "running"]_vars

SavedEntries ==
    IF disk.megOlmSessions.exists THEN DOMAIN disk.megOlmSessions.dict ELSE {}

\* C33 as stated: the room's file holds the outbound group session whenever the room
\* holds one in memory, and every inbound group session the room holds, the one
\* made from the own outbound session included.
C33_SessionsPersisted ==
    /\ room.meg_ses # NoSession => <<OwnUser, OwnDevice, None>> \in SavedEntries
    /\ \A entry \in DOMAIN room.room_keys : entry \in SavedEntries


\* ------------------------------------------------------- C34
\* the step that delivers a cancellation to the generator of queue q: it removes
\* the entry of q or ends the generator
Cancelled(q) ==
    /\ q \in DOMAIN consumer'
    /\ \/ Subscribed(q) /\ ~Subscribed(q)'
       \/ generator'[q] # generator[q]

\* C34: a cancelled generator destroys its subscription: after the cancellation the
\* entry of its queue is not registered, no error was raised by it, a repeated
\* cancellation included, and the generator has ended instead of waiting on its
\* queue again
C34_CancelledGeneratorEnds ==
    [][\A q \in DOMAIN consumer :
          Cancelled(q) => /\ ~Subscribed(q)'
                          /\ generator'[q] \notin {"waiting", "raised"}]_vars


\* ------------------------------------------------------- C35
\* C35: the device identity is generated once and reused: whatever connects,
\* restarts and failed uploads happened, at most one account was created, its
\* device keys were uploaded at most once, and a connected session holds that one
\* identity
C35_IdentityGeneratedOnce ==
    /\ account.created <= 1
    /\ Len(account.device_keys) <= 1
    /\ account.olm_account # 0 => account.device_keys = <<account.olm_account>>

\* ------------------------------------------------------- C36
\* the consumer of get_otk_count was handed a count of zero
ObservedEmpty ==
    \E q \in DOMAIN consumer :
        /\ consumer[q].event = "otk"
        /\ handled[q] > 0
        /\ delivered[q][handled[q]] = 0

\* C36: whenever the count of one-time keys is observed to be zero, an upload of
\* half the provider's maximum number of one-time keys eventually follows
C36_EmptyPoolReplenished ==
    \A n \in 0..MaxAccounts :
        (ObservedEmpty /\ Len(account.otk_uploads) = n)
            ~> (/\ Len(account.otk_uploads) > n
                /\ account.otk_uploads[Len(account.otk_uploads)] = MaxOneTimeKeys \div 2)


\* ------------------------------------------------------- C37
\* the response with the sections the home-server left out put back, empty
Completed(resp_json) ==
    [k \in DOMAIN resp_json \cup AbsentSections |->
        IF k \in DOMAIN resp_json THEN resp_json[k] ELSE EmptyDict]

\* C37: storing next_batch and enqueueing the events of the same response are one
\* step, whatever restarts interleave with the poll loop: a cancelled poll task
\* stores and enqueues nothing; the step that stores the next_batch of a poll
\* response enqueues every event of that response the filter accepts; and no response
\* is enqueued twice, since events are enqueued by such a step only and each one
\* stores a token newer than the one stored before
C37_StoredResponseEnqueuedOnce ==
    [][/\ \A t \in DOMAIN tasks :
            /\ (StepOf(t) /\ tasks[t].type = "sync" /\ tasks[t].must_cancel) =>
                  since_token' = since_token /\ general_queue' = general_queue
            /\ ReadsResponse(t, "poll") =>
                  /\ since_token' = tasks[t].resp.next_batch
                  /\ since_token' > since_token
                  /\ \E torder \in Orders(Range(get_unique_list(filter.timeline_rooms))) :
                     \E eorder \in Orders(Range(get_unique_list(filter.ephemeral_rooms))) :
                         Enqueued = get_filtered_event(filter, Completed(tasks[t].resp),
                                                       torder, eorder)
       /\ (Enqueued # <<>> /\ handled' = handled) =>
              \E t \in DOMAIN tasks : ReadsResponse(t, "poll")]_vars


\* ------------------------------------------------------- C38
\* the event loop runs the tasks that are ready; nothing obliges the application to
\* subscribe or unsubscribe again, or the home-server to answer
PollLive ==
    /\ Spec
    /\ WF_vars(SyncStep)
    /\ WF_vars(RecStep)

\* the response of a poll has arrived for a task that was not asked to end
PollCompleted ==
    \E t \in DOMAIN tasks :
        tasks[t].type = "sync" /\ tasks[t].fut_done /\ ~tasks[t].must_cancel

\* C38: while a subscription is registered the poll loop stays live: after every
\* completed poll, one that ended with a transport error included, another sync
\* request is sent, or the last subscription has gone
C38_PollLoopStaysLive ==
    PollCompleted ~> (\/ \E u \in DOMAIN tasks : InFlight(tasks[u])
                      \/ \A k \in Kinds : subscriber_list[k] = <<>>)


\* ------------------------------------------------------- C39
\* the step in which remove_subscriber, called by the cancelled generator of queue
\* q, raised
RemoveRaised(q) == generator[q] = "waiting" /\ generator'[q] = "raised"

\* C39: a remove_subscriber call that raises, for an entry that is not registered or
\* for a filter update that fails, leaves the registry, the filter and the running
\* tasks as they were before the call
C39_FailedUnsubscribeChangesNothing ==
    [][\A q \in DOMAIN consumer :
          RemoveRaised(q) => /\ subscriber_list' = subscriber_list
                             /\ filter' = filter
                             /\ tasks' = tasks
                             /\ sync_task' = sync_task
                             /\ rec_task' = rec_task]_vars


\* ------------------------------------------------------- C40
\* C40: a Room creates its prekey handler task and its encrypted-message handler
\* task at most once, whichever of the reload in __init__, activate_encryption and
\* the handling of an encryption event comes first and however they interleave
C40_HandlersStartedOnce ==
    /\ room.handlers_started <= 1
    /\ room.handlers_started = 0 <=> room.prekey_task = "none"
    /\ room.handlers_started = 0 <=> room.encrypted_task = "none"

\* in a room without another device activate_encryption was called twice and
\* wait_room_encryption handled the encryption event the first call sent (nothing
\* else sets is_encrypted there): the handlers were created once
C40_Witness ==
    /\ used.restarts = 0
    /\ OtherDevices(server.members) = <<>>
    /\ used.sessions = 2
    /\ room.is_encrypted
    /\ room.handlers_started = 1
    /\ room.prekey_task = "running"
    /\ room.encrypted_task = "running"

=============================================================================
